---------------------------- MODULE Spec2Model ----------------------------
(***************************************************************************)
(* A state-machine model of the browser game's shared game state, its mode *)
(* transition manager, the task mini-game loop, the timed training arenas  *)
(* and the task storage service.                                           *)
(*                                                                         *)
(* Lengths are in half pixels (gravity is 0.5 px per tick), so Px(n) is n  *)
(* pixels.  Time is in milliseconds.                                       *)
(***************************************************************************)
EXTENDS Integers, Sequences, FiniteSets, TLC

VARIABLES
    gameState,           \* the shared game state object (gameState.js)
    isTransitioning,     \* modeTransitionManager.js: let isTransitioning
    transitionCallback,  \* modeTransitionManager.js: let transitionCallback
    timers,              \* pending setTimeout callbacks, in creation order
    jobs,                \* pending promise continuations (import().then)
    calls,               \* ghost: one record per transitionGameMode call
    storage,             \* localStorage: the items of TaskStorageService
    storeLog,            \* ghost: the last storage operation and its argument
    sinceLastShot,       \* Date.now() - gameState.lastShootTime, in ms
    taskArena,           \* the task challenge arena entered from the task game
    lastTick,            \* ghost: what the last updateTaskGame removed and archived
    completion,          \* ghost: the last run of onTaskChallengeComplete
    taskGameInput,       \* the document has the 'taskGameInput' element
    trainingArena2DManager,   \* trainingArena2DSetup.js: let trainingArena2DManager
    trainingChallengeManager, \* trainingChallengeSetup.js: let trainingChallengeManager
    arenaLog,            \* ghost: the ticks and endings of the training arenas
    frameLog,            \* ghost: what the last frame of PixiScene called
    firePress            \* ghost: the bullets of the last press of the fire key

vars == <<gameState, isTransitioning, transitionCallback, timers, jobs, calls,
          storage, storeLog, sinceLastShot, taskArena, lastTick, completion,
          taskGameInput, trainingArena2DManager, trainingChallengeManager,
          arenaLog, frameLog, firePress>>

Px(n) == 2 * n

(***************************************************************************)
(* Values                                                                  *)
(***************************************************************************)
Modes == {"3D", "2D", "TASK_GAME", "2D_TRAINING", "2D_TASK_ARENA"}
Keys == {"a", "d", "w", "e", "l", "escape"}
\* JavaScript's undefined and null where an object is expected
Undefined == [tag |-> "undefined"]
Null == [tag |-> "null"]
Truthy(v) == v \notin {Undefined, Null}
\* null where a mode string is expected
NoMode == "null"
removeAt(seq, i) == SubSeq(seq, 1, i - 1) \o SubSeq(seq, i + 1, Len(seq))
\* index i (from 0) of a JavaScript array
At(arr, i) == arr[i + 1]

\* window.innerWidth / window.innerHeight of the modelled browser window (px)
innerWidth == 690
innerHeight == 300

AllKeysUp == [k \in Keys |-> FALSE]
Pos(x, y) == [x |-> x, y |-> y]

(***************************************************************************)
(* The world a handler runs in: the variables gathered in one record, so   *)
(* that a handler is the composition of the statements of its code.        *)
(***************************************************************************)
World == [gs |-> gameState, isTransitioning |-> isTransitioning,
          transitionCallback |-> transitionCallback, timers |-> timers,
          jobs |-> jobs, calls |-> calls,
          storage |-> storage, storeLog |-> storeLog,
          sinceLastShot |-> sinceLastShot, taskArena |-> taskArena,
          lastTick |-> lastTick, completion |-> completion,
          taskGameInput |-> taskGameInput,
          arena |-> trainingArena2DManager,
          challenge |-> trainingChallengeManager, arenaLog |-> arenaLog,
          frameLog |-> frameLog, firePress |-> firePress]

Commit(w) ==
    /\ gameState' = w.gs
    /\ isTransitioning' = w.isTransitioning
    /\ transitionCallback' = w.transitionCallback
    /\ timers' = w.timers
    /\ jobs' = w.jobs
    /\ calls' = w.calls
    /\ storage' = w.storage
    /\ storeLog' = w.storeLog
    /\ sinceLastShot' = w.sinceLastShot
    /\ taskArena' = w.taskArena
    /\ lastTick' = w.lastTick
    /\ completion' = w.completion
    /\ taskGameInput' = w.taskGameInput
    /\ trainingArena2DManager' = w.arena
    /\ trainingChallengeManager' = w.challenge
    /\ arenaLog' = w.arenaLog
    /\ frameLog' = w.frameLog
    /\ firePress' = w.firePress

\* The variables have the values of the world w.
Start(w) ==
    /\ gameState = w.gs
    /\ isTransitioning = w.isTransitioning
    /\ transitionCallback = w.transitionCallback
    /\ timers = w.timers
    /\ jobs = w.jobs
    /\ calls = w.calls
    /\ storage = w.storage
    /\ storeLog = w.storeLog
    /\ sinceLastShot = w.sinceLastShot
    /\ taskArena = w.taskArena
    /\ lastTick = w.lastTick
    /\ completion = w.completion
    /\ taskGameInput = w.taskGameInput
    /\ trainingArena2DManager = w.arena
    /\ trainingChallengeManager = w.challenge
    /\ arenaLog = w.arenaLog
    /\ frameLog = w.frameLog
    /\ firePress = w.firePress

(***************************************************************************)
(* gameState.js                                                            *)
(***************************************************************************)
\* gameState.gravity: 0.5 px per frame, in half pixels
gravity == 1
\* gameState.shootCooldown, in ms
shootCooldown == 300
\* Milliseconds between two animation frames.
FrameMs == 75
\* Nothing has happened in a training arena yet.  roam is the free-roam 2D
\* world as it was when the 2D arena was first entered.
NoArenaLog ==
    [last |-> "none", entries |-> 0, failure |-> "none", roam |-> Null,
     ticked2D |-> 0, ends2D |-> 0, exits2D |-> 0,
     hits |-> <<>>, replaced |-> Null, abandoned |-> {},
     ticks3D |-> 0, ticked3D |-> 0, first3D |-> 0, ends3D |-> 0]

\* The fire key has not been pressed yet.  shots: the bullets created since
\* its last keydown; gap: Date.now() - lastShootTime when the last of them
\* was created; by: the code that created it.
NoPress == [shots |-> 0, gap |-> 0, by |-> "none"]

shotAfter(press, gap, by) ==
    [shots |-> press.shots + 1, gap |-> gap, by |-> by]

\* No frame of PixiScene has run yet.
NoFrame ==
    [mode |-> "null", previousFrameMode |-> "null", bullets |-> <<>>,
     called |-> <<>>, modeAfterUpdate |-> "null"]

NoTick ==
    [before |-> <<>>, removed |-> <<>>, archives |-> <<>>, moved |-> <<>>,
     after |-> <<>>, modeAfter |-> "null"]

\* The object literal of gameState.js, with the fields the model follows.
\* bulletsCreated is a ghost: the number of bullet objects created so far,
\* which gives each bullet object its identity.
\* setMode is "default" for the method of the literal and "app" once
\* App.jsx has replaced it.
gameStateInit(setModeImpl) ==
    [mode |-> "3D", previousMode |-> NoMode, keys |-> AllKeysUp,
     playerPosition |-> Pos(Px(100), Px(400)),
     velocity |-> Pos(0, 0), bullets |-> <<>>, bulletsCreated |-> 0,
     isJumping |-> FALSE,
     taskGamePosition |-> Pos(Px(innerWidth) \div 2, Px(200)),
     savedTaskGamePosition |-> Undefined,
     isPaused |-> FALSE, currentTaskChallenge |-> Undefined,
     tasks |-> <<>>, taskTokens |-> 0, score |-> 0,
     platforms |-> <<>>, enemies |-> <<>>, gameApps |-> <<>>,
     taskGamePlatforms |-> <<>>, taskObjects |-> <<>>,
     taskGameButtons |-> <<>>,
     playerFacingDirection |-> 1, gravity |-> gravity,
     shootCooldown |-> shootCooldown,
     canvas |-> FALSE, setMode |-> setModeImpl]

\* gameState.setMode (gameState.js) or its replacement (App.jsx)
setMode(g, newMode) ==
    IF g.setMode = "default"
    THEN [g EXCEPT !.previousMode = g.mode, !.mode = newMode]
    ELSE [g EXCEPT !.mode = newMode]

(***************************************************************************)
(* modeTransitionManager.js                                                *)
(***************************************************************************)
resetAllKeyStates(g) == [g EXCEPT !.keys = AllKeysUp]

\* The fields the "State before preservation" log of preservePlayerState
\* lists, the mode apart.
PlayerState(g) ==
    [isPaused |-> g.isPaused, currentTaskChallenge |-> g.currentTaskChallenge,
     playerPosition |-> g.playerPosition,
     taskGamePosition |-> g.taskGamePosition,
     velocity |-> g.velocity, isJumping |-> g.isJumping]

\* A restoration that forgets playerPosition.
preserveTaskGamePositionOnly(g, fromMode, toMode) ==
    IF fromMode = "2D_TASK_ARENA" /\ toMode = "TASK_GAME"
    THEN LET p == IF Truthy(g.savedTaskGamePosition)
                  THEN Pos(g.savedTaskGamePosition.x, g.savedTaskGamePosition.y)
                  ELSE Pos(Px(innerWidth) \div 2, Px(innerHeight - 100))
         IN [g EXCEPT !.isPaused = FALSE,
                      !.currentTaskChallenge = Undefined,
                      !.taskGamePosition = p,
                      !.velocity = Pos(0, 0),
                      !.isJumping = FALSE]
    ELSE g

preservePlayerState(g, fromMode, toMode) ==
    IF fromMode = "2D_TASK_ARENA" /\ toMode = "TASK_GAME"
    THEN LET p == IF Truthy(g.savedTaskGamePosition)
                  THEN Pos(g.savedTaskGamePosition.x, g.savedTaskGamePosition.y)
                  ELSE Pos(Px(innerWidth) \div 2, Px(innerHeight - 100))
         IN [g EXCEPT !.isPaused = FALSE,
                      !.currentTaskChallenge = Undefined,
                      !.taskGamePosition = p,
                      !.playerPosition = p,
                      !.velocity = Pos(0, 0),
                      !.isJumping = FALSE]
    ELSE g

\* The delays of the two timers, in ms.
PostDelay == 50
KeyCheckDelay == 100

\* A manager that leaves the mode alone while an earlier transition is
\* still in progress.
transitionGameModeUnlessBusy(w, targetMode, callback) ==
    LET id == Len(w.calls) + 1
        prev == w.gs.mode
        g1 == resetAllKeyStates([w.gs EXCEPT !.previousMode = prev])
        g2 == preservePlayerState(g1, prev, targetMode)
        g3 == IF w.isTransitioning THEN g2
              ELSE setMode([g2 EXCEPT !.mode = targetMode], targetMode)
        cb == IF Truthy(callback) THEN [callback EXCEPT !.call = id]
              ELSE Null
    IN [w EXCEPT
          !.isTransitioning = TRUE,
          !.transitionCallback = cb,
          !.gs = g3,
          !.timers = Append(@, [kind |-> "post", call |-> id,
                                from |-> prev, to |-> targetMode,
                                left |-> PostDelay]),
          !.calls = Append(@, [from |-> prev, to |-> targetMode,
                               hasCallback |-> Truthy(callback),
                               preMode |-> g1.mode,
                               preserved |-> PlayerState(g2),
                               returnKeys |-> g3.keys,
                               returnPrevious |-> g3.previousMode,
                               trace |-> IF w.isTransitioning
                                         THEN <<"pre">> ELSE <<"pre", "mode">>,
                               post |-> FALSE, postMode |-> NoMode,
                               heldKeys |-> Null, postKeys |-> Null,
                               postDetail |-> Null,
                               cbCount |-> 0, cbBeforePost |-> FALSE])]

\* The synchronous part of transitionGameMode(targetMode, {}, callback).
\* callback is Null or a record naming the function passed.
transitionGameMode(w, targetMode, callback) ==
    LET id == Len(w.calls) + 1
        prev == w.gs.mode
        g1 == resetAllKeyStates([w.gs EXCEPT !.previousMode = prev])
        g2 == preservePlayerState(g1, prev, targetMode)
        g3 == setMode([g2 EXCEPT !.mode = targetMode], targetMode)
        g4 == IF targetMode = "TASK_GAME"
              THEN [g3 EXCEPT !.isPaused = FALSE,
                              !.currentTaskChallenge = Undefined]
              ELSE g3
        cb == IF Truthy(callback) THEN [callback EXCEPT !.call = id]
              ELSE Null
    IN [w EXCEPT
          !.isTransitioning = TRUE,
          !.transitionCallback = cb,
          !.gs = g4,
          !.timers = Append(@, [kind |-> "post", call |-> id,
                                from |-> prev, to |-> targetMode,
                                left |-> PostDelay]),
          !.calls = Append(@, [from |-> prev, to |-> targetMode,
                               hasCallback |-> Truthy(callback),
                               preMode |-> g1.mode,
                               preserved |-> PlayerState(g2),
                               returnKeys |-> g4.keys,
                               returnPrevious |-> g4.previousMode,
                               trace |-> <<"pre", "mode">>,
                               post |-> FALSE, postMode |-> NoMode,
                               heldKeys |-> Null, postKeys |-> Null,
                               postDetail |-> Null,
                               cbCount |-> 0, cbBeforePost |-> FALSE])]

isInModeTransition == isTransitioning
(***************************************************************************)
(* TaskStorageService: localStorage holds strings.  A JavaScript string is *)
(* a sequence of characters; an item that is absent or empty is <<>>.      *)
(***************************************************************************)
Quote == "\""
Backslash == "\\"
Digits == <<"0", "1", "2", "3", "4", "5", "6", "7", "8", "9">>
DigitSet == {Digits[i] : i \in 1..10}
digitValue(c) == (CHOOSE i \in 1..10 : Digits[i] = c) - 1

\* The order in which the code writes the properties of a task object.
TaskKeys == <<"id", "text", "completed", "requiredScore">>

RECURSIVE numberToString(_)
numberToString(n) ==
    IF n < 10 THEN <<Digits[n + 1]>>
    ELSE numberToString(n \div 10) \o <<Digits[(n % 10) + 1]>>

\* A stringifier that copies the characters of a string as they are.
escapeNothing(str) == str

RECURSIVE escapeString(_)
escapeString(str) ==
    IF str = <<>> THEN <<>>
    ELSE (IF Head(str) \in {Quote, Backslash}
          THEN <<Backslash, Head(str)>> ELSE <<Head(str)>>)
         \o escapeString(Tail(str))

quoteString(str) == <<Quote>> \o escapeString(str) \o <<Quote>>

stringifyProperty(obj, key) ==
    quoteString(<<key>>) \o <<":">> \o
    CASE key \in {"id", "text"} -> quoteString(obj[key])
      [] key = "completed" -> <<IF obj[key] THEN "true" ELSE "false">>
      [] key = "requiredScore" -> numberToString(obj[key])

RECURSIVE stringifyProperties(_, _, _)
stringifyProperties(obj, ks, first) ==
    IF ks = <<>> THEN <<>>
    ELSE IF Head(ks) \in DOMAIN obj
         THEN (IF first THEN <<>> ELSE <<",">>)
              \o stringifyProperty(obj, Head(ks))
              \o stringifyProperties(obj, Tail(ks), FALSE)
         ELSE stringifyProperties(obj, Tail(ks), first)

stringifyObject(obj) == <<"{">> \o stringifyProperties(obj, TaskKeys, TRUE) \o <<"}">>

RECURSIVE stringifyElements(_)
stringifyElements(arr) ==
    IF arr = <<>> THEN <<>>
    ELSE stringifyObject(Head(arr))
         \o (IF Len(arr) > 1 THEN <<",">> ELSE <<>>)
         \o stringifyElements(Tail(arr))

\* JSON.stringify of a list of task objects
stringifyTasks(arr) == <<"[">> \o stringifyElements(arr) \o <<"]">>

\* JSON.parse.  Each parser returns [ok, val, pos]: whether a value was read
\* at position p, the value, and the position after it.
Fail == [ok |-> FALSE, val |-> <<>>, pos |-> 0]
Ok(v, p) == [ok |-> TRUE, val |-> v, pos |-> p]
charAt(s, p) == IF p \in 1..Len(s) THEN s[p] ELSE "<eof>"

RECURSIVE parseChars(_, _, _)
parseChars(s, p, acc) ==
    LET c == charAt(s, p)
    IN IF c = "<eof>" THEN Fail
       ELSE IF c = Quote THEN Ok(acc, p + 1)
       ELSE IF c = Backslash
            THEN IF charAt(s, p + 1) \in {Quote, Backslash}
                 THEN parseChars(s, p + 2, Append(acc, s[p + 1]))
                 ELSE Fail
       ELSE parseChars(s, p + 1, Append(acc, c))

parseString(s, p) ==
    IF charAt(s, p) = Quote THEN parseChars(s, p + 1, <<>>) ELSE Fail

RECURSIVE parseDigits(_, _, _)
parseDigits(s, p, acc) ==
    IF charAt(s, p) \in DigitSet
    THEN parseDigits(s, p + 1, acc * 10 + digitValue(s[p]))
    ELSE Ok(acc, p)

RECURSIVE parseValue(_, _)
RECURSIVE parseMembers(_, _, _)
RECURSIVE parseElements(_, _, _)

parseValue(s, p) ==
    LET c == charAt(s, p)
    IN CASE c = Quote -> parseString(s, p)
         [] c \in DigitSet -> parseDigits(s, p, 0)
         [] c = "true" -> Ok(TRUE, p + 1)
         [] c = "false" -> Ok(FALSE, p + 1)
         [] c = "{" -> IF charAt(s, p + 1) = "}" THEN Ok(<<>>, p + 2)
                       ELSE parseMembers(s, p + 1, <<>>)
         [] c = "[" -> IF charAt(s, p + 1) = "]" THEN Ok(<<>>, p + 2)
                       ELSE parseElements(s, p + 1, <<>>)
         [] OTHER -> Fail

\* the members of an object, as the record they denote
parseMembers(s, p, acc) ==
    LET k == parseString(s, p)
        v == parseValue(s, k.pos + 1)
        obj == [name \in (DOMAIN acc) \cup {k.val[1]} |->
                   IF name = k.val[1] THEN v.val ELSE acc[name]]
    IN IF ~k.ok \/ Len(k.val) # 1 \/ charAt(s, k.pos) # ":" THEN Fail
       ELSE IF ~v.ok THEN Fail
       ELSE IF charAt(s, v.pos) = "}" THEN Ok(obj, v.pos + 1)
       ELSE IF charAt(s, v.pos) = "," THEN parseMembers(s, v.pos + 1, obj)
       ELSE Fail

parseElements(s, p, acc) ==
    LET v == parseValue(s, p)
    IN IF ~v.ok THEN Fail
       ELSE IF charAt(s, v.pos) = "]" THEN Ok(Append(acc, v.val), v.pos + 1)
       ELSE IF charAt(s, v.pos) = ","
            THEN parseElements(s, v.pos + 1, Append(acc, v.val))
       ELSE Fail

\* JSON.parse(s): the value, or a SyntaxError
jsonParse(s) ==
    LET whole(r) == IF r.ok /\ r.pos = Len(s) + 1 THEN r ELSE Fail
    IN whole(parseValue(s, 1))

\* taskStorage.getTasks() on the storage st
getTasks(st) ==
    IF st.tasks = <<>> THEN <<>>
    ELSE LET parsed(r) == IF r.ok THEN r.val ELSE <<>>
         IN parsed(jsonParse(st.tasks))

\* taskStorage.saveTasks(tasks)
saveTasks(st, tasks) == [st EXCEPT !.tasks = stringifyTasks(tasks)]

\* taskStorage.getTokens()
getTokens(st) ==
    IF st.tokens = <<>> THEN 0
    ELSE LET parsed(r) == IF r.ok THEN r.val ELSE 0
         IN parsed(jsonParse(st.tokens))

\* taskStorage.saveTokens(tokenCount)
saveTokens(st, tokenCount) == [st EXCEPT !.tokens = numberToString(tokenCount)]

\* new TaskStorageService(): _initializeStorage
initializeStorage(st) ==
    [tasks |-> IF st.tasks = <<>> THEN stringifyTasks(<<>>) ELSE st.tasks,
     tokens |-> IF st.tokens = <<>> THEN numberToString(0) ELSE st.tokens]

(***************************************************************************)
(* taskGameSetup.js: the task mini-game environment                        *)
(***************************************************************************)
\* task.requiredScore || 300
DefaultRequiredScore == 300
requiredScoreOr(v) == IF v = 0 THEN DefaultRequiredScore ELSE v

taskPlatform(index) ==
    [x |-> Px(100 + (index % 3) * 300),
     y |-> Px(innerHeight - 150 - (index \div 3) * 100),
     width |-> Px(250), height |-> Px(20)]

taskObject(task, index) ==
    LET platform == taskPlatform(index)
    IN [x |-> platform.x + platform.width \div 2 - Px(30),
        y |-> platform.y - Px(60),
        width |-> Px(60), height |-> Px(60),
        text |-> task.text,
        completed |-> task.completed,
        locked |-> ~task.completed,
        requiredScore |-> requiredScoreOr(task.requiredScore),
        index |-> index, oid |-> index]

taskGameButtons ==
    << [x |-> Px(50), y |-> Px(50), width |-> Px(120), height |-> Px(50),
        action |-> "new_task"],
       [x |-> Px(innerWidth - 150), y |-> Px(50), width |-> Px(120),
        height |-> Px(50), action |-> "exit"] >>

\* setupTaskGameEnvironment(state, state.canvas).  The task objects are new
\* objects: a challenge that still refers to an old one keeps a detached
\* object, which taskObjDetached records.
setupTaskGameEnvironment(g) ==
    IF ~g.canvas THEN g
    ELSE
    LET n == Len(g.tasks)
        x1 == IF g.taskGamePosition.x < 0 THEN 0 ELSE g.taskGamePosition.x
        x2 == IF x1 > Px(innerWidth - 40) THEN Px(innerWidth - 40) ELSE x1
        y1 == IF g.taskGamePosition.y > Px(innerHeight - 50)
              THEN Px(innerHeight - 100) ELSE g.taskGamePosition.y
    IN [g EXCEPT
          !.taskGamePlatforms =
              << [x |-> 0, y |-> Px(innerHeight - 50),
                  width |-> Px(innerWidth), height |-> Px(50)] >>
              \o [i \in 1..n |-> taskPlatform(i - 1)],
          !.taskObjects = [i \in 1..n |-> taskObject(g.tasks[i], i - 1)],
          !.taskGameButtons = taskGameButtons,
          !.taskGamePosition = Pos(x2, y1),
          !.playerPosition = Pos(x2, y1),
          !.velocity = Pos(0, 0),
          !.isJumping = FALSE,
          !.keys = AllKeysUp,
          !.currentTaskChallenge =
              IF Truthy(@) THEN [@ EXCEPT !.taskObjDetached = TRUE] ELSE @]

(***************************************************************************)
(* taskGameSetup.js: updateTaskGame                                        *)
(***************************************************************************)
moveSpeed == Px(5)
jumpPower == Px(15)

\* bullet.x > r.x && bullet.x < r.x + r.width && bullet.y > r.y && ...
inside(bullet, r) ==
    /\ bullet.x > r.x /\ bullet.x < r.x + r.width
    /\ bullet.y > r.y /\ bullet.y < r.y + r.height

offscreen(bullet) ==
    \/ bullet.x < 0 \/ bullet.x > Px(innerWidth)
    \/ bullet.y < 0 \/ bullet.y > Px(innerHeight)

\* arr.splice(i, 1)
splice(arr, i) == IF i < Len(arr) THEN removeAt(arr, i + 1) ELSE arr

shootTaskGame(g) ==
    LET direction == g.playerFacingDirection
    IN [g EXCEPT !.bullets = Append(@,
          [x |-> g.taskGamePosition.x + (IF direction > 0 THEN Px(40) ELSE 0),
           y |-> g.taskGamePosition.y + Px(25),
           vx |-> direction * Px(10), vy |-> -Px(5),
           id |-> g.bulletsCreated]),
                 !.bulletsCreated = @ + 1]

closeTaskGame(w) ==
    [w EXCEPT !.gs = [setMode([@ EXCEPT !.mode = "2D"], "2D") EXCEPT
                        !.bullets = <<>>, !.isPaused = FALSE,
                        !.velocity = Pos(0, 0)],
              !.taskGameInput = FALSE]

\* Lines 630-737: the game pauses and the input element is shown.
createNewTaskInput(w) ==
    [w EXCEPT !.gs.isPaused = TRUE, !.taskGameInput = TRUE]

\* Lines 700-721: the click on 'Add Task' with the text typed.
addTaskFromInput(w, id, text) ==
    LET tasks1 == Append(w.gs.tasks,
                         [id |-> id, text |-> text, completed |-> FALSE,
                          requiredScore |-> DefaultRequiredScore])
    IN [w EXCEPT
          !.gs = [setupTaskGameEnvironment([@ EXCEPT !.tasks = tasks1])
                    EXCEPT !.isPaused = FALSE, !.keys = AllKeysUp],
          !.taskGameInput = FALSE,
          !.storage = saveTasks(@, tasks1)]

\* Lines 723-731: the click on 'Cancel'.
cancelTaskInput(w) ==
    [w EXCEPT !.gs.isPaused = FALSE, !.gs.keys = AllKeysUp,
              !.taskGameInput = FALSE]

\* Lines 229-257: keys to velocity, gravity, position.
applyMovement(g) ==
    LET left == g.keys["a"]
        right == g.keys["d"]
        vx == IF right THEN moveSpeed ELSE IF left THEN -moveSpeed ELSE 0
        facing == IF right THEN 1 ELSE IF left THEN -1
                  ELSE g.playerFacingDirection
        jump == g.keys["w"] /\ ~g.isJumping
        vy == (IF jump THEN -jumpPower ELSE g.velocity.y) + g.gravity
        p == Pos(g.taskGamePosition.x + vx, g.taskGamePosition.y + vy)
    IN [g EXCEPT !.velocity = Pos(vx, vy),
                 !.playerFacingDirection = facing,
                 !.isJumping = @ \/ jump,
                 !.taskGamePosition = p,
                 !.playerPosition = p]

\* Lines 260-274: the platforms, in order.
RECURSIVE landOnPlatforms(_, _)
landOnPlatforms(g, ps) ==
    IF ps = <<>> THEN g
    ELSE LET platform == Head(ps)
             lands == /\ g.taskGamePosition.y + Px(50) >= platform.y
                      /\ g.taskGamePosition.y + Px(40) < platform.y
                      /\ g.taskGamePosition.x + Px(30) > platform.x
                      /\ g.taskGamePosition.x < platform.x + platform.width
         IN landOnPlatforms(
              IF lands
              THEN [g EXCEPT !.taskGamePosition.y = platform.y - Px(50),
                             !.velocity.y = 0,
                             !.isJumping = FALSE,
                             !.playerPosition.y = platform.y - Px(50)]
              ELSE g,
              Tail(ps))

\* Lines 277-287: the canvas bounds.
keepInCanvas(g) ==
    LET x1 == IF g.taskGamePosition.x < 0 THEN 0 ELSE g.taskGamePosition.x
        x2 == IF x1 > Px(innerWidth - 40) THEN Px(innerWidth - 40) ELSE x1
        g1 == [g EXCEPT !.taskGamePosition.x = x2]
    IN IF g1.taskGamePosition.y > Px(innerHeight)
       THEN LET p == Pos(Px(innerWidth) \div 2, Px(innerHeight - 100))
            IN [g1 EXCEPT !.taskGamePosition = p, !.velocity.y = 0,
                          !.playerPosition = p]
       ELSE g1

\* A removal that pops the last bullet of the list instead of the one at i.
removeLastBullet(w, i, b) ==
    [w EXCEPT !.gs.bullets = splice(@, Len(@) - 1),
              !.lastTick.removed =
                  IF 0 < Len(w.gs.bullets)
                  THEN Append(@, [bullet |-> At(w.gs.bullets,
                                                  Len(w.gs.bullets) - 1),
                                  for |-> b])
                  ELSE @]

\* state.bullets.splice(i, 1), executed for the bullet b; the ghost records
\* which bullet object left the list.
removeBullet(w, i, b) ==
    [w EXCEPT !.gs.bullets = splice(@, i),
              !.lastTick.removed =
                  IF i < Len(w.gs.bullets)
                  THEN Append(@, [bullet |-> At(w.gs.bullets, i), for |-> b])
                  ELSE @]

\* A hit that records the challenge and never starts the transition.
activateWithoutTransition(w) ==
    IF ~Truthy(w.gs.currentTaskChallenge) THEN w
    ELSE [w EXCEPT
            !.gs.savedTaskGamePosition =
                Pos(w.gs.taskGamePosition.x, w.gs.taskGamePosition.y),
            !.gs.keys = AllKeysUp]

activateTaskArenaChallenge(w) ==
    IF ~Truthy(w.gs.currentTaskChallenge) THEN w
    ELSE [w EXCEPT
            !.gs.savedTaskGamePosition =
                Pos(w.gs.taskGamePosition.x, w.gs.taskGamePosition.y),
            !.gs.keys = AllKeysUp,
            !.jobs = Append(@, [name |-> "activate"])]

\* Lines 327-347: a bullet hit the locked task object at taskObjects[j].
hitLocked(w, i, b, j) ==
    LET taskObj == At(w.gs.taskObjects, j)
        correspondingTask == At(w.gs.tasks, taskObj.index)
        w1 == removeBullet(w, i, b)
    IN activateTaskArenaChallenge(
         [w1 EXCEPT
            !.gs.currentTaskChallenge =
                [tag |-> "challenge", task |-> correspondingTask.id,
                 taskObj |-> taskObj.oid, taskObjDetached |-> FALSE,
                 requiredScore |-> requiredScoreOr(taskObj.requiredScore)],
            !.gs.savedTaskGamePosition =
                Pos(w.gs.taskGamePosition.x, w.gs.taskGamePosition.y)])

\* A re-indexing that starts one object too late.
reindexAfter(objs, j) ==
    [k \in DOMAIN objs |->
        IF k - 1 > j THEN [objs[k] EXCEPT !.index = @ - 1] ELSE objs[k]]

\* for (let k = j; k < state.taskObjects.length; k++) state.taskObjects[k].index--
reindexFrom(objs, j) ==
    [k \in DOMAIN objs |->
        IF k - 1 >= j THEN [objs[k] EXCEPT !.index = @ - 1] ELSE objs[k]]

\* Lines 348-363: a bullet hit the task object at taskObjects[j] of a
\* completed task.
archiveTask(w, j) ==
    LET taskObj == At(w.gs.taskObjects, j)
        tasks1 == splice(w.gs.tasks, taskObj.index)
        objs1 == reindexFrom(splice(w.gs.taskObjects, j), j)
    IN [w EXCEPT
          !.gs.tasks = tasks1,
          !.gs.taskObjects = objs1,
          !.storage = saveTasks(@, tasks1),
          !.lastTick.archives =
              Append(@, [tasksBefore |-> w.gs.tasks,
                         objectsBefore |-> w.gs.taskObjects,
                         j |-> j,
                         tasksAfter |-> tasks1,
                         objectsAfter |-> objs1])]

Min(S) == CHOOSE n \in S : \A k \in S : n <= k

\* Lines 316-369: the loop over the task objects for the bullet b at index i.
\* L is [w, tasksChanged].
taskObjectsLoop(L, i, b) ==
    LET objs == L.w.gs.taskObjects
        hits == {j \in 0..(Len(objs) - 1) : inside(b, At(objs, j))}
        j == Min(hits)
        taskObj == At(objs, j)
    IN IF hits = {} THEN L
       ELSE IF taskObj.locked THEN [L EXCEPT !.w = hitLocked(@, i, b, j)]
       ELSE IF At(L.w.gs.tasks, taskObj.index).completed
            THEN [w |-> removeBullet(archiveTask(L.w, j), i, b),
                  tasksChanged |-> TRUE]
       ELSE [L EXCEPT !.w = removeBullet(@, i, b)]

\* Lines 372-389: the loop over the buttons for the same bullet.
buttonsLoop(L, i, b) ==
    LET buttons == L.w.gs.taskGameButtons
        hits == {n \in DOMAIN buttons : inside(b, buttons[n])}
        button == buttons[Min(hits)]
        w1 == IF button.action = "new_task" THEN createNewTaskInput(L.w)
              ELSE closeTaskGame(L.w)
    IN IF hits = {} THEN L
       ELSE [L EXCEPT !.w = removeBullet(w1, i, b)]

\* Lines 295-390: the body of the loop over the bullets, for index i.
bulletStep(L, i) ==
    IF i >= Len(L.w.gs.bullets) THEN L
    ELSE LET old == At(L.w.gs.bullets, i)
             b == [old EXCEPT !.x = @ + old.vx, !.y = @ + old.vy]
             L1 == [L EXCEPT
                      !.w.gs.bullets[i + 1] = b,
                      !.w.lastTick.moved =
                          Append(@, [from |-> old,
                                     objects |-> L.w.gs.taskObjects])]
         IN IF offscreen(b) THEN [L1 EXCEPT !.w = removeBullet(@, i, b)]
            ELSE buttonsLoop(taskObjectsLoop(L1, i, b), i, b)

\* for (let i = state.bullets.length - 1; i >= 0; i--)
RECURSIVE bulletsLoop(_, _)
bulletsLoop(L, i) ==
    IF i < 0 THEN L ELSE bulletsLoop(bulletStep(L, i), i - 1)

\* A shot at the end of the update that does not look at the clock.
shootWithoutCooldown(w) ==
    IF w.gs.keys["l"]
    THEN [w EXCEPT !.sinceLastShot = 0,
                   !.firePress = shotAfter(@, w.sinceLastShot, "update"),
                   !.gs = [shootTaskGame(@) EXCEPT !.keys["l"] = FALSE]]
    ELSE w

\* Lines 399-408: the shot at the end of the update.
shootIfKeyDown(w) ==
    IF w.gs.keys["l"] /\ w.sinceLastShot > w.gs.shootCooldown
    THEN [w EXCEPT !.sinceLastShot = 0,
                   !.firePress = shotAfter(@, w.sinceLastShot, "update"),
                   !.gs = [shootTaskGame(@) EXCEPT !.keys["l"] = FALSE]]
    ELSE w

\* updateTaskGame(deltaTime, state, canvas)
updateTaskGame(w) ==
    LET moved(g) ==
            keepInCanvas(landOnPlatforms(applyMovement(g), g.taskGamePlatforms))
        noted(w1) == [w1 EXCEPT !.lastTick.after = w1.gs.bullets,
                                !.lastTick.modeAfter = w1.gs.mode]
        rebuilt(L) ==
            IF L.tasksChanged
            THEN [noted(L.w) EXCEPT !.gs = setupTaskGameEnvironment(@)]
            ELSE noted(L.w)
    IN IF w.gs.isPaused \/ w.gs.currentTaskChallenge # Undefined THEN w
       ELSE shootIfKeyDown(rebuilt(bulletsLoop(
              [w |-> [w EXCEPT !.gs = moved(@),
                               !.lastTick = [NoTick EXCEPT
                                               !.before = w.gs.bullets]],
               tasksChanged |-> FALSE],
              Len(w.gs.bullets) - 1)))

(***************************************************************************)
(* inputManager.js                                                         *)
(***************************************************************************)
shoot2D(g) ==
    LET direction == g.playerFacingDirection
    IN [g EXCEPT !.bullets = Append(@,
          [x |-> g.playerPosition.x + (IF direction > 0 THEN Px(40) ELSE 0),
           y |-> g.playerPosition.y + Px(25),
           vx |-> direction * Px(10), vy |-> 0,
           id |-> g.bulletsCreated]),
                 !.bulletsCreated = @ + 1]

\* The keydown listener, for the key 'key'.
keydown(w, key) ==
    IF w.gs.isPaused
    THEN IF key = "escape" /\ w.taskGameInput
         THEN [w EXCEPT !.taskGameInput = FALSE, !.gs.isPaused = FALSE]
         ELSE [w EXCEPT !.firePress = IF key = "l" THEN NoPress ELSE @]
    ELSE LET w1 == [w EXCEPT !.gs.keys[key] = TRUE,
                             !.firePress = IF key = "l" THEN NoPress
                                           ELSE @]
         IN IF w1.gs.mode = "TASK_GAME" /\ key = "escape"
            THEN closeTaskGame(w1)
            ELSE IF key = "l" /\ w1.sinceLastShot > w1.gs.shootCooldown
                 THEN [w1 EXCEPT
                         !.sinceLastShot = 0,
                         !.firePress =
                             IF w1.gs.mode \in {"2D", "TASK_GAME"}
                             THEN shotAfter(@, w1.sinceLastShot, "keydown")
                             ELSE @,
                         !.gs = IF @.mode = "2D" THEN shoot2D(@)
                                ELSE IF @.mode = "TASK_GAME"
                                     THEN shootTaskGame(@)
                                     ELSE @]
                 ELSE w1

\* The keyup listener.
keyup(w, key) ==
    IF w.gs.isPaused THEN w ELSE [w EXCEPT !.gs.keys[key] = FALSE]

(***************************************************************************)
(* taskGameSetup.js: entering the task game, the challenge and the return  *)
(***************************************************************************)
SampleTask ==
    [id |-> <<"s">>, text |-> <<"a">>, completed |-> FALSE,
     requiredScore |-> DefaultRequiredScore]

\* savedTask.requiredScore === undefined: the property is absent
withRequiredScore(task) ==
    IF "requiredScore" \in DOMAIN task THEN task
    ELSE [k \in (DOMAIN task) \cup {"requiredScore"} |->
             IF k = "requiredScore" THEN DefaultRequiredScore ELSE task[k]]

idOf(task) == IF "id" \in DOMAIN task THEN task.id ELSE <<"undefined">>

RECURSIVE mergeSavedTasks(_, _)
mergeSavedTasks(tasks, saved) ==
    IF saved = <<>> THEN tasks
    ELSE mergeSavedTasks(
           IF \E i \in DOMAIN tasks : idOf(tasks[i]) = idOf(Head(saved))
           THEN tasks
           ELSE Append(tasks, withRequiredScore(Head(saved))),
           Tail(saved))

loadSavedTasksAndTokens(w) ==
    [w EXCEPT !.gs.tasks = mergeSavedTasks(@, getTasks(w.storage)),
              !.gs.taskTokens = getTokens(w.storage)]

enterTaskGame(w) ==
    LET orSample(tasks) == IF tasks = <<>> THEN <<SampleTask>> ELSE tasks
        scored(tasks) == [i \in DOMAIN tasks |-> withRequiredScore(tasks[i])]
        loaded(w1) ==
            [w1 EXCEPT
               !.gs.tasks = scored(orSample(@)),
               !.gs.bullets = <<>>,
               !.gs.playerFacingDirection = 1,
               !.gs.currentTaskChallenge = Undefined]
    IN loaded(loadSavedTasksAndTokens(
                [w EXCEPT
                   !.gs = [setMode([@ EXCEPT !.mode = "TASK_GAME"], "TASK_GAME")
                             EXCEPT !.taskGamePosition =
                                        Pos(Px(innerWidth) \div 2,
                                            Px(innerHeight - 100)),
                                    !.velocity = Pos(0, 0),
                                    !.isJumping = FALSE]]))

returnToTaskGame(w) == [w EXCEPT !.jobs = Append(@, [name |-> "return"])]

\* challenge.task.completed = true: the task object the challenge refers to
completeTask(tasks, id) ==
    [i \in DOMAIN tasks |->
        IF idOf(tasks[i]) = id THEN [tasks[i] EXCEPT !.completed = TRUE]
        ELSE tasks[i]]

\* challenge.taskObj.locked = false; challenge.taskObj.completed = true
unlockTaskObj(objs, challenge) ==
    [k \in DOMAIN objs |->
        IF ~challenge.taskObjDetached /\ objs[k].oid = challenge.taskObj
        THEN [objs[k] EXCEPT !.locked = FALSE, !.completed = TRUE]
        ELSE objs[k]]

taskCompleted(tasks, id) ==
    \E i \in DOMAIN tasks : idOf(tasks[i]) = id /\ tasks[i].completed

\* A challenge with a score one above the required score always succeeds.
onTaskChallengeCompleteStrict(w, scoreAchieved) ==
    LET challenge == w.gs.currentTaskChallenge
        isSuccess == scoreAchieved > challenge.requiredScore
        tasks1 == completeTask(w.gs.tasks, challenge.task)
        w1 == IF isSuccess
              THEN [w EXCEPT
                      !.gs.tasks = tasks1,
                      !.gs.taskObjects = unlockTaskObj(@, challenge),
                      !.gs.taskTokens = @ + 1,
                      !.storage = saveTasks(saveTokens(@, w.gs.taskTokens + 1),
                                            tasks1)]
              ELSE w
    IN IF ~Truthy(challenge) THEN w
       ELSE returnToTaskGame(
              [w1 EXCEPT
                 !.gs.currentTaskChallenge = Null,
                 !.completion =
                     [tag |-> "done", score |-> scoreAchieved,
                      requiredScore |-> challenge.requiredScore,
                      completedBefore |-> taskCompleted(w.gs.tasks, challenge.task),
                      completedAfter |-> taskCompleted(w1.gs.tasks, challenge.task),
                      tokensBefore |-> w.gs.taskTokens,
                      tokensAfter |-> w1.gs.taskTokens]])

onTaskChallengeComplete(w, scoreAchieved) ==
    LET challenge == w.gs.currentTaskChallenge
        isSuccess == scoreAchieved >= challenge.requiredScore
        tasks1 == completeTask(w.gs.tasks, challenge.task)
        w1 == IF isSuccess
              THEN [w EXCEPT
                      !.gs.tasks = tasks1,
                      !.gs.taskObjects = unlockTaskObj(@, challenge),
                      !.gs.taskTokens = @ + 1,
                      !.storage = saveTasks(saveTokens(@, w.gs.taskTokens + 1),
                                            tasks1)]
              ELSE w
    IN IF ~Truthy(challenge) THEN w
       ELSE returnToTaskGame(
              [w1 EXCEPT
                 !.gs.currentTaskChallenge = Null,
                 !.completion =
                     [tag |-> "done", score |-> scoreAchieved,
                      requiredScore |-> challenge.requiredScore,
                      completedBefore |-> taskCompleted(w.gs.tasks, challenge.task),
                      completedAfter |-> taskCompleted(w1.gs.tasks, challenge.task),
                      tokensBefore |-> w.gs.taskTokens,
                      tokensAfter |-> w1.gs.taskTokens]])

\* The callbacks taskGameSetup.js passes to transitionGameMode.
EnterArenaCallback == [tag |-> "fn", name |-> "enterArena", call |-> 0]
RestoreCallback == [tag |-> "fn", name |-> "restore", call |-> 0]

\* Lines 1044-1069: the callback of the transition into the arena.
enterArenaCallback(w) ==
    [w EXCEPT !.gs = resetAllKeyStates(@),
              !.jobs = Append(@, [name |-> "enterTaskArena2D"])]

\* Lines 1200-1262: the callback of the transition back to the task game.
restoreCallback(w) ==
    LET g1 == resetAllKeyStates(w.gs)
        g2 == IF Truthy(g1.savedTaskGamePosition)
              THEN [g1 EXCEPT !.taskGamePosition =
                                  Pos(g1.savedTaskGamePosition.x,
                                      g1.savedTaskGamePosition.y),
                              !.savedTaskGamePosition = Null]
              ELSE [g1 EXCEPT !.taskGamePosition =
                                  Pos(Px(innerWidth) \div 2,
                                      Px(innerHeight - 100))]
        g3 == [g2 EXCEPT !.velocity = Pos(0, 0), !.isJumping = FALSE]
    IN [w EXCEPT !.gs = setupTaskGameEnvironment(g3),
                 !.timers = Append(@, [kind |-> "keyreset", call |-> 0,
                                       from |-> NoMode, to |-> NoMode,
                                       left |-> KeyCheckDelay])]

(***************************************************************************)
(* Callbacks, timers and promise continuations                             *)
(***************************************************************************)
\* A function passed to transitionGameMode by code outside the manager.
ClientCallback == [tag |-> "fn", name |-> "client", call |-> 0]

\* twoDSetup.js, handleAppActivation for the app 'taskchallenge': the
\* callbacks it passes to transitionGameMode.
AppArenaCallback == [tag |-> "fn", name |-> "appArena", call |-> 0]
AppRestoreCallback == [tag |-> "fn", name |-> "appRestore", call |-> 0]

\* Lines 450-452: the callback of the transition into the arena.
appArenaCallback(w) ==
    [w EXCEPT !.jobs = Append(@, [name |-> "appEnterTaskArena2D"])]

\* Lines 491-510: the callback of the transition back to the task game.
appRestoreCallback(w) ==
    LET g1 == [w.gs EXCEPT !.currentTaskChallenge = Null, !.keys = AllKeysUp]
        g2 == IF Truthy(g1.savedTaskGamePosition)
              THEN [g1 EXCEPT !.taskGamePosition =
                                  Pos(g1.savedTaskGamePosition.x,
                                      g1.savedTaskGamePosition.y)]
              ELSE g1
    IN [w EXCEPT !.gs = g2,
                 !.jobs = Append(@, [name |-> "appSetup"])]

noteCallback(w, cb) ==
    [w EXCEPT !.calls[cb.call].cbCount = @ + 1,
              !.calls[cb.call].cbBeforePost =
                  @ \/ ~w.calls[cb.call].post]

\* Invocation of a callback passed to transitionGameMode.
runCallback(w, cb) ==
    LET w1 == noteCallback(w, cb)
    IN CASE cb.name = "client" -> w1
         [] cb.name = "enterArena" -> enterArenaCallback(w1)
         [] cb.name = "restore" -> restoreCallback(w1)
         [] cb.name = "appArena" -> appArenaCallback(w1)
         [] cb.name = "appRestore" -> appRestoreCallback(w1)

\* A timer function that dispatches the notification with the keys as the
\* player holds them.
postTransitionKeysHeld(w, t) ==
    LET w1 == [w EXCEPT !.calls[t.call].post = TRUE,
                        !.calls[t.call].postMode = w.gs.mode,
                        !.calls[t.call].heldKeys = w.gs.keys,
                        !.calls[t.call].postKeys = w.gs.keys,
                        !.calls[t.call].postDetail =
                            [from |-> t.from, to |-> t.to],
                        !.calls[t.call].trace = Append(@, "post"),
                        !.isTransitioning = FALSE]
        w2 == IF Truthy(w1.transitionCallback)
              THEN [runCallback(w1, w1.transitionCallback)
                      EXCEPT !.transitionCallback = Null]
              ELSE w1
    IN [w2 EXCEPT !.timers = Append(@, [t EXCEPT !.kind = "keycheck",
                                                !.left = KeyCheckDelay])]

\* The function given to setTimeout(..., 50) by transitionGameMode.
postTransition(w, t) ==
    LET w0 == [w EXCEPT !.gs = resetAllKeyStates(@)]
        w1 == [w0 EXCEPT !.calls[t.call].post = TRUE,
                         !.calls[t.call].postMode = w0.gs.mode,
                         !.calls[t.call].heldKeys = w.gs.keys,
                         !.calls[t.call].postKeys = w0.gs.keys,
                         !.calls[t.call].postDetail =
                             [from |-> t.from, to |-> t.to],
                         !.calls[t.call].trace = Append(@, "post"),
                         !.isTransitioning = FALSE]
        w2 == IF Truthy(w1.transitionCallback)
              THEN [runCallback(w1, w1.transitionCallback)
                      EXCEPT !.transitionCallback = Null]
              ELSE w1
    IN [w2 EXCEPT !.timers = Append(@, [t EXCEPT !.kind = "keycheck",
                                                !.left = KeyCheckDelay])]

\* The function given to setTimeout(..., 100) inside it.
finalKeyCheck(w, t) ==
    LET w1 == [w EXCEPT !.gs = resetAllKeyStates(@)]
    IN IF t.to = "TASK_GAME" /\ w1.gs.canvas
       THEN [w1 EXCEPT !.jobs = Append(@, [name |-> "setupTaskGameEnvironment"])]
       ELSE w1

\* taskArena2DSetup.enterTaskArena2D(canvas, ctx, gameState, requiredScore,
\* onTaskChallengeComplete): an active arena manager, or null when the
\* arena cannot be set up (entered is FALSE).
enterTaskArena2D(w, entered) ==
    IF ~Truthy(w.gs.currentTaskChallenge) \/ ~entered
    THEN returnToTaskGame(w)
    ELSE [w EXCEPT !.taskArena = [active |-> TRUE, callback |-> "task"]]

\* twoDSetup.js 453-458: enterTaskArena2D with the completion callback of
\* handleAppActivation.  Reading requiredScore of a missing challenge throws,
\* and a null manager is not looked at.
appEnterTaskArena2D(w, entered) ==
    IF ~Truthy(w.gs.currentTaskChallenge) \/ ~entered THEN w
    ELSE [w EXCEPT !.taskArena = [active |-> TRUE, callback |-> "app"]]

\* twoDSetup.js 395-449: handleAppActivation(app, state) for the app
\* 'taskchallenge', once the transition manager is imported.
handleAppActivation(w) ==
    IF Truthy(w.gs.currentTaskChallenge) /\ w.gs.canvas
    THEN transitionGameMode(w, "2D_TASK_ARENA", AppArenaCallback)
    ELSE w

\* twoDSetup.js 459-488: the completion callback handleAppActivation gives
\* to the arena.
appChallengeComplete(w, score) ==
    LET challenge == w.gs.currentTaskChallenge
        isSuccess == score >= challenge.requiredScore
        done == [w EXCEPT
                   !.gs.tasks = completeTask(@, challenge.task),
                   !.gs.taskObjects = unlockTaskObj(@, challenge),
                   !.gs.taskTokens = @ + 1]
    IN IF ~Truthy(challenge) THEN w
       ELSE [(IF isSuccess THEN done ELSE w)
               EXCEPT !.jobs = Append(@, [name |-> "appReturn"])]

\* Lines 1039-1044: the continuation of activateTaskArenaChallenge.
activateContinuation(w) ==
    transitionGameMode([w EXCEPT !.gs = resetAllKeyStates(@)],
                       "2D_TASK_ARENA", EnterArenaCallback)

\* Lines 1180-1200: the continuation of returnToTaskGame.
returnContinuation(w) ==
    transitionGameMode(
        [w EXCEPT !.gs = [resetAllKeyStates(@) EXCEPT
                            !.isPaused = FALSE,
                            !.currentTaskChallenge = Undefined]],
        "TASK_GAME", RestoreCallback)

\* A promise continuation.
runJob(w, job, entered) ==
    CASE job.name = "setupTaskGameEnvironment" ->
           [w EXCEPT !.gs = setupTaskGameEnvironment(@)]
      [] job.name = "activate" -> activateContinuation(w)
      [] job.name = "enterTaskArena2D" -> enterTaskArena2D(w, entered)
      [] job.name = "return" -> returnContinuation(w)
      [] job.name = "handleApp" -> handleAppActivation(w)
      [] job.name = "appEnterTaskArena2D" -> appEnterTaskArena2D(w, entered)
      [] job.name = "appReturn" ->
             transitionGameMode(w, "TASK_GAME", AppRestoreCallback)
      [] job.name = "appSetup" ->
             [w EXCEPT !.gs = setupTaskGameEnvironment(@)]

\* Timer i is the next to fire among the timers of its delay.
Due(i) ==
    /\ timers[i].left = 0
    /\ \A j \in 1..(i - 1) :
          ~(timers[j].left = 0 /\ timers[j].kind = timers[i].kind)

\* The state once the modules are loaded: gameState.js, the transition
\* manager's variables and the storage service constructed over an empty
\* localStorage.
worldInit(impl) ==
    [gs |-> gameStateInit(impl), isTransitioning |-> FALSE,
     transitionCallback |-> Null, timers |-> <<>>, jobs |-> <<>>,
     calls |-> <<>>,
     storage |-> initializeStorage([tasks |-> <<>>, tokens |-> <<>>]),
     storeLog |-> [op |-> "none", arg |-> <<>>],
     sinceLastShot |-> shootCooldown + FrameMs,
     taskArena |-> [active |-> FALSE, callback |-> "task"],
     lastTick |-> NoTick,
     completion |-> [tag |-> "none"],
     taskGameInput |-> FALSE,
     arena |-> Null, challenge |-> Null, arenaLog |-> NoArenaLog,
     frameLog |-> NoFrame, firePress |-> NoPress]

(***************************************************************************)
(* Actions of the event loop                                               *)
(***************************************************************************)
Idle == jobs = <<>>

FirePost ==
    /\ Idle
    /\ \E i \in DOMAIN timers :
          /\ Due(i) /\ timers[i].kind = "post"
          /\ Commit(postTransition([World EXCEPT !.timers = removeAt(@, i)],
                                   timers[i]))

FireKeyCheck ==
    /\ Idle
    /\ \E i \in DOMAIN timers :
          /\ Due(i) /\ timers[i].kind = "keycheck"
          /\ Commit(finalKeyCheck([World EXCEPT !.timers = removeAt(@, i)],
                                  timers[i]))

RunJob ==
    /\ jobs # <<>>
    /\ \E entered \in BOOLEAN :
          Commit(runJob([World EXCEPT !.jobs = Tail(@)], Head(jobs), entered))

\* The function given to setTimeout(..., 100) by the restore callback.
FireKeyReset ==
    /\ Idle
    /\ \E i \in DOMAIN timers :
          /\ Due(i) /\ timers[i].kind = "keyreset"
          /\ Commit([World EXCEPT !.timers = removeAt(@, i),
                                  !.gs = resetAllKeyStates(@)])

\* ms milliseconds pass.
elapseBy(w, ms) ==
    [w EXCEPT !.timers = [i \in DOMAIN @ |->
                            [@[i] EXCEPT !.left = IF @ > ms
                                                  THEN @ - ms ELSE 0]],
              !.sinceLastShot = IF @ > shootCooldown THEN @ ELSE @ + ms]

\* FrameMs milliseconds pass.
elapse(w) == elapseBy(w, FrameMs)

NoTimerDue == \A i \in DOMAIN timers : timers[i].left > 0

\* Time passes; no timer is overdue.
Elapse ==
    /\ Idle
    /\ timers # <<>>
    /\ NoTimerDue
    /\ Commit(elapse(World))

(***************************************************************************)
(* Specification of the transition manager under arbitrary callers         *)
(***************************************************************************)
MaxCalls == 2

CallTransitionGameMode ==
    /\ Idle
    /\ Len(calls) < MaxCalls
    /\ \E targetMode \in Modes, callback \in {Null, ClientCallback} :
          Commit(transitionGameMode(World, targetMode, callback))

InitTM ==
    \E impl \in {"default", "app"}, canvas \in BOOLEAN :
        Start([worldInit(impl) EXCEPT !.gs.canvas = canvas])

NextTM ==
    \/ CallTransitionGameMode
    \/ FirePost
    \/ FireKeyCheck
    \/ RunJob
    \/ Elapse

SpecTM == InitTM /\ [][NextTM]_vars

(***************************************************************************)
(* Specification of the task mini-game: a player who jumps and shoots,     *)
(* the task objects and buttons, the challenge and the return from it      *)
(***************************************************************************)
MaxTasks == 2
\* The number of bullets a run creates.
MaxShots == 2

\* The keys the player uses here, and the scores an arena reports.
PlayerKeys == {"l", "escape"}
Scores == {0, DefaultRequiredScore - 1, DefaultRequiredScore,
           DefaultRequiredScore + 1}

\* Where the player stands when the run starts (x in px), on the platform
\* of the first or the second task, and the way the player faces.
StartSpots ==
    {[x |-> 305, platform |-> 1, facing |-> -1],
     [x |-> 190, platform |-> 1, facing |-> -1],
     [x |-> 605, platform |-> 2, facing |-> -1],
     [x |-> 625, platform |-> 2, facing |-> -1],
     [x |-> 605, platform |-> 2, facing |-> 1]}

taskId(n) == <<"t", Digits[n + 1]>>

TaskConfigs ==
    UNION {[1..n -> BOOLEAN] : n \in 1..MaxTasks}

tasksOf(config) ==
    [i \in DOMAIN config |->
        [id |-> taskId(i), text |-> <<"a">>, completed |-> config[i],
         requiredScore |-> DefaultRequiredScore]]

\* The task game just entered, with the tasks of an earlier session in
\* localStorage, and the player gone to the spot, standing on its platform.
taskGameEntered(tasks, spot) ==
    LET standing(g) ==
            Pos(Px(spot.x), At(g.taskGamePlatforms, spot.platform).y - Px(50))
        placed(g) ==
            [g EXCEPT !.taskGamePosition = standing(g),
                      !.playerPosition = standing(g),
                      !.playerFacingDirection = spot.facing]
        mounted(w) == [w EXCEPT !.gs = placed(setupTaskGameEnvironment(@))]
    IN mounted(enterTaskGame(
                 [worldInit("app") EXCEPT !.gs.canvas = TRUE, !.gs.mode = "2D",
                                          !.storage = saveTasks(@, tasks)]))

InitTask ==
    \E config \in TaskConfigs, spot \in StartSpots :
        /\ spot.platform <= Len(config)
        /\ Start(taskGameEntered(tasksOf(config), spot))

\* An animation frame in the task game, FrameMs after the last one.
Frame ==
    /\ Idle
    /\ NoTimerDue
    /\ gameState.mode = "TASK_GAME"
    /\ gameState.canvas
    /\ gameState.keys["l"] => gameState.bulletsCreated < MaxShots
    /\ Commit(updateTaskGame(elapse(World)))

\* Time passes in another mode.
ElapseElsewhere ==
    /\ gameState.mode # "TASK_GAME"
    /\ Elapse

KeyDown ==
    /\ Idle
    /\ \E key \in PlayerKeys :
          /\ key = "l" => /\ gameState.bulletsCreated < MaxShots
                          /\ Len(calls) < MaxCalls
          /\ Commit(keydown(World, key))

KeyUp ==
    /\ Idle
    /\ \E key \in PlayerKeys :
          /\ gameState.keys[key]
          /\ Commit(keyup(World, key))

AddTask ==
    /\ Idle
    /\ taskGameInput
    /\ Len(gameState.tasks) < MaxTasks
    /\ \E n \in 1..MaxTasks :
          /\ \A i \in DOMAIN gameState.tasks : gameState.tasks[i].id # taskId(n)
          /\ \A k \in 1..(n - 1) :
                \E i \in DOMAIN gameState.tasks : gameState.tasks[i].id = taskId(k)
          /\ Commit(addTaskFromInput(World, taskId(n), <<"b">>))

CancelTask ==
    /\ Idle
    /\ taskGameInput
    /\ Commit(cancelTaskInput(World))

\* The arena ends and reports the score through the completion callback.
TaskArenaComplete ==
    /\ Idle
    /\ taskArena.active
    /\ \E score \in Scores :
          Commit(IF taskArena.callback = "app"
                 THEN appChallengeComplete(
                        [World EXCEPT !.taskArena.active = FALSE], score)
                 ELSE onTaskChallengeComplete(
                        [World EXCEPT !.taskArena.active = FALSE], score))

NextTask ==
    \/ Frame
    \/ ElapseElsewhere
    \/ KeyDown
    \/ KeyUp
    \/ AddTask
    \/ CancelTask
    \/ TaskArenaComplete
    \/ FirePost
    \/ FireKeyCheck
    \/ FireKeyReset
    \/ RunJob

SpecTask == InitTask /\ [][NextTask]_vars

(***************************************************************************)
(* Specification of the task list: the task menu of the 2D and 3D worlds,  *)
(* the entry into the task game and its input for a new task.              *)
(***************************************************************************)
\* TaskMenu.addTask: gameState.tasks.push({ text, completed: false })
taskMenuAddTask(w, text) ==
    [w EXCEPT !.gs.tasks = Append(@, [text |-> text, completed |-> FALSE])]

\* The task lists an earlier session left in localStorage.
StoredBefore ==
    {<<>>,
     <<[id |-> taskId(1), text |-> <<"a">>, completed |-> FALSE]>>,
     <<[id |-> taskId(1), text |-> <<"a">>, completed |-> TRUE,
        requiredScore |-> DefaultRequiredScore]>>}

InitTaskList ==
    \E stored \in StoredBefore :
        Start([worldInit("app") EXCEPT !.gs.canvas = TRUE,
                                       !.storage = saveTasks(@, stored)])

TaskMenuAddTask ==
    /\ gameState.mode # "TASK_GAME"
    /\ Len(gameState.tasks) < MaxTasks
    /\ \E text \in {<<"a">>, <<"b">>} : Commit(taskMenuAddTask(World, text))

\* enterTaskGame() and the set-up of the environment that follows it.
EnterTaskGame ==
    /\ gameState.mode # "TASK_GAME"
    /\ Commit([enterTaskGame(World) EXCEPT !.gs = setupTaskGameEnvironment(@)])

CloseTaskGame ==
    /\ gameState.mode = "TASK_GAME"
    /\ Commit(closeTaskGame(World))

NewTaskInput ==
    /\ gameState.mode = "TASK_GAME"
    /\ ~taskGameInput
    /\ Commit(createNewTaskInput(World))

TaskInputAdd ==
    /\ taskGameInput
    /\ Len(gameState.tasks) < MaxTasks
    /\ \E n \in 1..MaxTasks :
          /\ \A i \in DOMAIN gameState.tasks :
                idOf(gameState.tasks[i]) # taskId(n)
          /\ Commit(addTaskFromInput(World, taskId(n), <<"b">>))

NextTaskList ==
    \/ TaskMenuAddTask
    \/ EnterTaskGame
    \/ CloseTaskGame
    \/ NewTaskInput
    \/ TaskInputAdd
    \/ CancelTask

SpecTaskList == InitTaskList /\ [][NextTaskList]_vars

(***************************************************************************)
(* Specification of the transition manager called in any player state,     *)
(* with the keyboard in use.                                               *)
(***************************************************************************)
\* A position saved by activateTaskArenaChallenge; a challenge in progress.
SavedSpot == Pos(Px(300), Px(150))
SomeChallenge ==
    [tag |-> "challenge", task |-> <<"s">>, taskObj |-> 0,
     taskObjDetached |-> FALSE, requiredScore |-> DefaultRequiredScore]
TMKeys == {"a"}

InitTMKeys ==
    \E impl \in {"default", "app"}, canvas \in BOOLEAN,
       saved \in {Undefined, SavedSpot},
       challenged \in BOOLEAN, isPaused \in BOOLEAN :
        Start([worldInit(impl) EXCEPT
                 !.gs.canvas = canvas,
                 !.gs.savedTaskGamePosition = saved,
                 !.gs.velocity = IF challenged THEN Pos(moveSpeed, -jumpPower)
                                 ELSE Pos(0, 0),
                 !.gs.isJumping = challenged,
                 !.gs.isPaused = isPaused,
                 !.gs.currentTaskChallenge =
                     IF challenged THEN SomeChallenge ELSE Undefined])

TMKeyDown ==
    /\ Idle
    /\ \E key \in TMKeys :
          /\ ~gameState.keys[key]
          /\ Commit(keydown(World, key))

TMKeyUp ==
    /\ Idle
    /\ \E key \in TMKeys :
          /\ gameState.keys[key]
          /\ Commit(keyup(World, key))

NextTMKeys ==
    \/ CallTransitionGameMode
    \/ FirePost
    \/ FireKeyCheck
    \/ RunJob
    \/ Elapse
    \/ TMKeyDown
    \/ TMKeyUp

SpecTMKeys == InitTMKeys /\ [][NextTMKeys]_vars

(***************************************************************************)
(* Specification of a task challenge from the shot to the return: the      *)
(* player has fired at a task object; the arena completes with some score  *)
(* or cannot be entered, handleAppActivation may be called for the app     *)
(* 'taskchallenge' while the challenge is pending, and the animation       *)
(* frames, the timers and the promise continuations run.                   *)
(***************************************************************************)
InitChallenge ==
    \E config \in TaskConfigs, spot \in StartSpots :
        /\ spot.platform <= Len(config)
        /\ Start(keyup(keydown(taskGameEntered(tasksOf(config), spot), "l"),
                       "l"))

\* Some module calls handleAppActivation({type: 'app', app: 'taskchallenge'},
\* gameState); the import of the transition manager is pending.
HandleAppActivation ==
    /\ Idle
    /\ Truthy(gameState.currentTaskChallenge)
    /\ Len(calls) < MaxCalls
    /\ Commit([World EXCEPT !.jobs = Append(@, [name |-> "handleApp"])])

NextChallenge ==
    \/ Frame
    \/ ElapseElsewhere
    \/ TaskArenaComplete
    \/ HandleAppActivation
    \/ FirePost
    \/ FireKeyCheck
    \/ FireKeyReset
    \/ RunJob

\* A timer of the given kind is due.
TimerDue(kind) ==
    Idle /\ \E i \in DOMAIN timers : timers[i].left = 0 /\ timers[i].kind = kind

\* Time can pass: a timer is pending and none is overdue.
TimePasses == Idle /\ timers # <<>> /\ NoTimerDue

\* The browser runs every promise continuation and every due timer, and
\* time does not stop while a timer is pending.
SpecChallenge ==
    /\ InitChallenge
    /\ [][NextChallenge]_vars
    /\ ([]<>(jobs = <<>>) \/ []<><<RunJob>>_vars)
    /\ ([]<>(~TimerDue("post")) \/ []<><<FirePost>>_vars)
    /\ ([]<>(~TimerDue("keycheck")) \/ []<><<FireKeyCheck>>_vars)
    /\ WF_vars(FireKeyReset)
    /\ ([]<>(~TimePasses) \/ []<><<Frame \/ ElapseElsewhere>>_vars)

(***************************************************************************)
(* twoDSetup.js: the free-roam 2D world                                    *)
(***************************************************************************)
Rect(x, y, width, height) ==
    [x |-> Px(x), y |-> Px(y), width |-> Px(width), height |-> Px(height)]

createPlatforms ==
    <<Rect(0, innerHeight - 50, innerWidth, 50),
      Rect(200, innerHeight - 150, 200, 20),
      Rect(500, innerHeight - 250, 200, 20),
      Rect(800, innerHeight - 350, 200, 20),
      Rect(300, innerHeight - 450, 400, 20)>>

enemy(x, y) ==
    [x |-> Px(x), y |-> Px(y), width |-> Px(40), height |-> Px(40),
     health |-> 2]

createEnemies ==
    <<enemy(300, innerHeight - 180), enemy(550, innerHeight - 280),
      enemy(850, innerHeight - 380)>>

gameApp(x, y, size, type, app) ==
    [x |-> Px(x), y |-> Px(y), width |-> Px(size), height |-> Px(size),
     type |-> type, app |-> app]

createGameApps ==
    <<gameApp(650, innerHeight - 480, 60, "portal", "3D"),
      gameApp(250, innerHeight - 180, 40, "app", "notes"),
      gameApp(600, innerHeight - 280, 40, "app", "timer"),
      gameApp(400, innerHeight - 480, 50, "app", "tasks"),
      gameApp(100, innerHeight - 480, 50, "app", "training")>>

\* init2DEnvironment(container, state); PixiScene keeps the canvas in
\* gameState.canvas.
init2DEnvironment(g) ==
    [g EXCEPT !.platforms = createPlatforms, !.enemies = createEnemies,
              !.gameApps = createGameApps, !.canvas = TRUE]

(***************************************************************************)
(* trainingArena2DSetup.js: the timed 2D training arena.  Its targets and  *)
(* effects bear on the score and the picture only and are left out.        *)
(***************************************************************************)
\* TRAINING_TIME, in seconds
TRAINING_TIME == 60
\* The delay of endChallenge's setTimeout, in ms
ExitDelay == 5000
maxFallSpeed == Px(15)
\* QUALITY_SETTINGS[gameState.graphicsQuality], graphicsQuality: 'low'
targetCount == 5
targetSize == 30
\* The delay of the setTimeout of checkBulletCollisions, in ms
ReplaceDelay == 1000

\* new TrainingArena2DManager(canvas, ctx, state); id tells the managers
\* apart: it is the number of the entry that constructs this one.
TrainingArena2DManager(g) ==
    [id |-> 0, targets |-> <<>>, score |-> 0,
     isActive |-> FALSE, isEnding |-> FALSE, isRestoringState |-> FALSE,
     timeRemaining |-> TRAINING_TIME * 1000,
     originalPlatforms |-> g.platforms, originalEnemies |-> g.enemies,
     originalGameApps |-> g.gameApps,
     originalPlayerPosition |-> g.playerPosition,
     lKeyHandler |-> TRUE, exitPortal |-> Null, exitTimeout |-> FALSE]

\* layout[i] is Math.random() * (canvas.width - platformWidth) of platform i
createTrainingPlatforms(layout) ==
    [i \in 1..5 |-> Rect(layout[i], innerHeight - 150 - (i - 1) * 100, 200, 20)]

createExitPortal == gameApp(innerWidth - 100, 100, 60, "portal", "EXIT")

\* createTarget(); draw holds what its Math.random() calls come to: the
\* position, whether the target moves, and its velocity.
createTarget(w, draw) ==
    [w EXCEPT !.arena.targets = Append(@,
        [x |-> draw.x, y |-> draw.y,
         width |-> Px(targetSize), height |-> Px(targetSize),
         points |-> IF draw.isMoving THEN 20 ELSE 10,
         isMoving |-> draw.isMoving,
         vx |-> IF draw.isMoving THEN draw.vx ELSE 0,
         vy |-> IF draw.isMoving THEN draw.vy ELSE 0])]

\* createTargets(): one createTarget() per draw, targetCount of them.
RECURSIVE createTargets(_, _)
createTargets(w, draws) ==
    IF draws = <<>> THEN w
    ELSE createTargets(createTarget(w, Head(draws)), Tail(draws))

\* Every Math.random() of createTarget() returns 0: a static target in the
\* upper left corner.
StillDraw ==
    [x |-> Px(targetSize), y |-> Px(50), isMoving |-> FALSE,
     vx |-> 0, vy |-> 0]

StillTargets == [i \in 1..targetCount |-> StillDraw]

\* The statements of initialize() up to createTargets()
initializeArena(w, layout) ==
    [w EXCEPT !.arena.isActive = TRUE,
              !.arena.score = 0,
              !.arena.timeRemaining = TRAINING_TIME * 1000,
              !.arena.exitPortal = createExitPortal,
              !.gs.platforms = <<Rect(0, innerHeight - 50, innerWidth, 50)>>
                                 \o createTrainingPlatforms(layout),
              !.gs.enemies = <<>>,
              !.gs.gameApps = <<createExitPortal>>,
              !.gs.bullets = <<>>]

\* createBullet()
createBullet(g) ==
    [g EXCEPT !.bullets = Append(@,
          [x |-> g.playerPosition.x
                   + (IF g.playerFacingDirection > 0 THEN Px(40) ELSE 0),
           y |-> g.playerPosition.y + Px(25),
           vx |-> g.playerFacingDirection * Px(10), vy |-> 0,
           id |-> g.bulletsCreated]),
              !.bulletsCreated = @ + 1]

\* The manager's own keydown listener, which runs after the listener of
\* inputManager.js.
lKeyHandler(w, key) ==
    IF /\ w.arena # Null /\ w.arena.lKeyHandler /\ w.arena.isActive
       /\ key = "l" /\ w.sinceLastShot > w.gs.shootCooldown
    THEN [w EXCEPT !.sinceLastShot = 0,
                   !.firePress = shotAfter(@, w.sinceLastShot, "arena"),
                   !.gs = createBullet(@)]
    ELSE w

\* The platforms of updatePlayerMovement, in order.
RECURSIVE landOn2D(_, _)
landOn2D(g, ps) ==
    IF ps = <<>> THEN g
    ELSE LET platform == Head(ps)
             lands == /\ g.playerPosition.x + Px(30) > platform.x
                      /\ g.playerPosition.x < platform.x + platform.width
                      /\ g.playerPosition.y + Px(50) >= platform.y
                      /\ g.playerPosition.y + Px(50) - g.velocity.y
                            <= platform.y
         IN landOn2D(IF lands
                     THEN [g EXCEPT !.playerPosition.y = platform.y - Px(50),
                                    !.velocity.y = 0, !.isJumping = FALSE]
                     ELSE g,
                     Tail(ps))

\* A movement update without the cap on the falling speed.
updatePlayerMovementUncapped(g) ==
    LET vx == IF g.keys["d"] THEN moveSpeed
              ELSE IF g.keys["a"] THEN -moveSpeed ELSE 0
        jump == g.keys["w"] /\ ~g.isJumping
        vy == (IF jump THEN -jumpPower ELSE g.velocity.y) + g.gravity
    IN landOn2D(
         [g EXCEPT !.velocity = Pos(vx, vy),
                   !.isJumping = @ \/ jump,
                   !.playerPosition = Pos(@.x + vx, @.y + vy)],
         g.platforms)

updatePlayerMovement(g) ==
    LET vx == IF g.keys["d"] THEN moveSpeed
              ELSE IF g.keys["a"] THEN -moveSpeed ELSE 0
        facing == IF g.keys["d"] THEN 1
                  ELSE IF g.keys["a"] THEN -1 ELSE g.playerFacingDirection
        jump == g.keys["w"] /\ ~g.isJumping
        vy == (IF jump THEN -jumpPower ELSE g.velocity.y) + g.gravity
        capped(v) == IF v > maxFallSpeed THEN maxFallSpeed ELSE v
        bottom(l) == IF l.playerPosition.y > Px(innerHeight)
                     THEN [l EXCEPT !.playerPosition.y = Px(innerHeight - 50),
                                    !.velocity.y = 0, !.isJumping = FALSE]
                     ELSE l
    IN bottom(landOn2D(
         [g EXCEPT !.velocity = Pos(vx, capped(vy)),
                   !.playerFacingDirection = facing,
                   !.isJumping = @ \/ jump,
                   !.playerPosition = Pos(@.x + vx, @.y + capped(vy))],
         g.platforms))

\* updateBullets(): every bullet moves and one that is offscreen is removed.
RECURSIVE updateBullets(_)
updateBullets(bullets) ==
    IF bullets = <<>> THEN <<>>
    ELSE LET flown(b) == IF offscreen(b) THEN <<>> ELSE <<b>>
         IN flown([Head(bullets) EXCEPT !.x = @ + Head(bullets).vx,
                                        !.y = @ + Head(bullets).vy])
            \o updateBullets(Tail(bullets))

\* updateTargets(deltaTime): the moving targets move and bounce off the
\* walls and off the floor.
updateTargets(targets) ==
    LET W == Px(innerWidth)
        H == Px(innerHeight - 50)
        clamp(v, hi) == IF v < 0 THEN 0 ELSE IF v > hi THEN hi ELSE v
        moved(t) == [t EXCEPT !.x = @ + t.vx, !.y = @ + t.vy]
        bouncedX(t) == IF t.x <= 0 \/ t.x + t.width >= W
                       THEN [t EXCEPT !.vx = -@,
                                      !.x = clamp(@, W - t.width)]
                       ELSE t
        bouncedY(t) == IF t.y <= 0 \/ t.y + t.height >= H
                       THEN [t EXCEPT !.vy = -@,
                                      !.y = clamp(@, H - t.height)]
                       ELSE t
    IN [j \in DOMAIN targets |->
          IF targets[j].isMoving THEN bouncedY(bouncedX(moved(targets[j])))
          ELSE targets[j]]

\* The setTimeout of checkBulletCollisions: the timer knows its manager.
replacementTimer(id) ==
    [kind |-> "createTarget", call |-> id, from |-> NoMode, to |-> NoMode,
     left |-> ReplaceDelay]

\* The body of the loop of checkBulletCollisions for the bullet at index i:
\* the last target it is inside of is hit.
bulletCollision(w, i) ==
    LET bullet == At(w.gs.bullets, i)
        targets == w.arena.targets
        hit == {j \in 0..(Len(targets) - 1) : inside(bullet, At(targets, j))}
        j == CHOOSE k \in hit : \A n \in hit : n <= k
        target == At(targets, j)
    IN IF hit = {} THEN w
       ELSE [w EXCEPT
               !.arena.score = @ + target.points,
               !.gs.bullets = splice(@, i),
               !.arena.targets = splice(@, j),
               !.timers = Append(@, replacementTimer(w.arena.id)),
               !.arenaLog.hits = Append(@, [bullet |-> bullet,
                                            target |-> target])]

\* checkBulletCollisions(): for (let i = bullets.length - 1; i >= 0; i--)
RECURSIVE collisionsLoop(_, _)
collisionsLoop(w, i) ==
    IF i < 0 THEN w ELSE collisionsLoop(bulletCollision(w, i), i - 1)

checkBulletCollisions(w) == collisionsLoop(w, Len(w.gs.bullets) - 1)

\* update(deltaTime), from updatePlayerMovement to checkBulletCollisions
arenaStep(w) ==
    checkBulletCollisions(
      [w EXCEPT !.gs = [updatePlayerMovement(@) EXCEPT
                          !.bullets = updateBullets(@)],
                !.arena.targets = updateTargets(@),
                !.arenaLog.hits = <<>>])

\* A replacement that does not look at isActive.
replaceTargetAnyway(w, id, draw) ==
    IF w.arena # Null /\ w.arena.id = id
    THEN [createTarget(w, draw) EXCEPT
            !.arenaLog.replaced = [id |-> id, created |-> TRUE,
                                   abandoned |-> FALSE, mode |-> w.gs.mode]]
    ELSE w

\* The function given to setTimeout by checkBulletCollisions, set by the
\* manager id: if (this.isActive) this.createTarget().  A manager another
\* one has taken the place of is kept in arenaLog.abandoned if isActive was
\* set when it was left; its targets are no longer part of the game.
replaceTarget(w, id, draw) ==
    LET fired(created, abandoned) ==
          [id |-> id, created |-> created, abandoned |-> abandoned,
           mode |-> w.gs.mode]
    IN IF w.arena # Null /\ w.arena.id = id
       THEN IF w.arena.isActive
            THEN [createTarget(w, draw) EXCEPT
                    !.arenaLog.replaced = fired(TRUE, FALSE)]
            ELSE [w EXCEPT !.arenaLog.replaced = fired(FALSE, FALSE)]
       ELSE [w EXCEPT !.arenaLog.replaced =
                          fired(id \in w.arenaLog.abandoned, TRUE)]

\* cleanup()
cleanup(w) ==
    [w EXCEPT !.arena.lKeyHandler = FALSE,
              !.arena.targets = <<>>,
              !.gs.bullets = <<>>,
              !.arena.exitTimeout = FALSE,
              !.timers = SelectSeq(@, LAMBDA t : t.kind # "exitArena")]

\* exitArena()
exitArena(w) ==
    LET restored(w1) ==
          [w1 EXCEPT !.gs.platforms = w1.arena.originalPlatforms,
                     !.gs.enemies = w1.arena.originalEnemies,
                     !.gs.gameApps = w1.arena.originalGameApps,
                     !.gs.playerPosition = w1.arena.originalPlayerPosition,
                     !.gs.velocity = Pos(0, 0),
                     !.gs.isJumping = FALSE,
                     !.gs.keys = AllKeysUp,
                     !.gs.mode = "2D",
                     !.arenaLog.last = "exitArena",
                     !.arenaLog.exits2D = @ + 1]
    IN restored(cleanup([w EXCEPT !.arena.isActive = FALSE]))

\* showFinalScore()
showFinalScore(w) ==
    IF w.arena.isRestoringState THEN w
    ELSE [w EXCEPT !.arena.isRestoringState = TRUE,
                   !.gs.platforms = w.arena.originalPlatforms,
                   !.gs.enemies = w.arena.originalEnemies,
                   !.gs.gameApps = w.arena.originalGameApps,
                   !.gs.playerPosition = w.arena.originalPlayerPosition,
                   !.gs.velocity = Pos(0, 0),
                   !.gs.isJumping = FALSE]

\* An endChallenge that sets no timeout.
endChallengeWithoutTimeout(w) ==
    showFinalScore([w EXCEPT !.arena.isEnding = TRUE,
                             !.arena.lKeyHandler = FALSE,
                             !.arenaLog.ends2D = @ + 1])

\* endChallenge()
endChallenge(w) ==
    [showFinalScore([w EXCEPT !.arena.isEnding = TRUE,
                              !.arena.lKeyHandler = FALSE,
                              !.arenaLog.ends2D = @ + 1])
       EXCEPT !.arena.exitTimeout = TRUE,
              !.timers = Append(@, [kind |-> "exitArena", call |-> 0,
                                    from |-> NoMode, to |-> NoMode,
                                    left |-> ExitDelay])]

\* initialize(); fails: createTargets() throws, and the catch block runs
\* exitArena().
initialize(w, layout, draws, fails) ==
    IF fails THEN exitArena(initializeArena(w, layout))
    ELSE [createTargets(initializeArena(w, layout), draws) EXCEPT
            !.gs.playerPosition = Pos(Px(100), Px(innerHeight - 100)),
            !.gs.velocity = Pos(0, 0)]

\* checkExitPortalProximity(): distance < 50, squared; lengths in half pixels
checkExitPortalProximity(w) ==
    LET portal == w.arena.exitPortal
        dx == (w.gs.playerPosition.x + Px(20)) - (portal.x + portal.width \div 2)
        dy == (w.gs.playerPosition.y + Px(25)) - (portal.y + portal.height \div 2)
    IN IF portal # Null /\ dx * dx + dy * dy < Px(50) * Px(50) /\ w.gs.keys["e"]
       THEN [exitArena(w) EXCEPT !.gs.keys["e"] = FALSE]
       ELSE w

\* An update that goes on counting down in the ending state.
updateWhileEnding(w, deltaTime) ==
    LET counted(w1) ==
          IF w1.arena.timeRemaining <= 0 THEN endChallenge(w1)
          ELSE checkExitPortalProximity(arenaStep(w1))
    IN IF ~w.arena.isActive THEN w
       ELSE counted([w EXCEPT !.arena.timeRemaining = @ - deltaTime])

\* update(deltaTime), deltaTime in ms
arenaUpdate(w, deltaTime) ==
    LET counted(w1) ==
          IF w1.arena.timeRemaining <= 0 THEN endChallenge(w1)
          ELSE checkExitPortalProximity(arenaStep(w1))
    IN IF ~w.arena.isActive THEN w
       ELSE IF w.arena.isEnding THEN w
       ELSE counted([w EXCEPT !.arena.timeRemaining = @ - deltaTime])

\* updateTrainingArena2D(deltaTime)
updateTrainingArena2D(w, deltaTime) ==
    IF w.arena # Null /\ w.arena.isActive
    THEN arenaUpdate([w EXCEPT !.arenaLog.ticked2D = @ + deltaTime,
                               !.arenaLog.last = "update"],
                     deltaTime)
    ELSE w

\* enterTrainingArena2D(canvas, ctx, state); failure: the constructor throws,
\* initialize() fails, or neither; draws: the targets createTargets() makes.
enterTrainingArenaWith(w, layout, draws, failure) ==
    LET cleaned == IF w.arena # Null THEN cleanup(w) ELSE w
        left == IF w.arena # Null /\ w.arena.isActive
                THEN {w.arena.id} ELSE {}
        called(w1) ==
          [w1 EXCEPT !.arenaLog.last = "enter",
                     !.arenaLog.entries = @ + 1,
                     !.arenaLog.failure = failure,
                     !.arenaLog.roam =
                        IF @ = Null
                        THEN [platforms |-> w.gs.platforms,
                              enemies |-> w.gs.enemies,
                              gameApps |-> w.gs.gameApps,
                              playerPosition |-> w.gs.playerPosition]
                        ELSE @]
        entered(w1) ==
          [w1 EXCEPT !.gs.previousMode = w1.gs.mode,
                     !.gs.mode = "2D_TRAINING",
                     !.arenaLog.ticked2D = 0,
                     !.arenaLog.ends2D = 0]
    IN IF failure = "constructor"
       THEN called([cleaned EXCEPT !.gs.mode = "2D"])
       ELSE called(entered(initialize(
              [cleaned EXCEPT
                 !.arena = [TrainingArena2DManager(cleaned.gs) EXCEPT
                              !.id = w.arenaLog.entries + 1],
                 !.arenaLog.abandoned = @ \cup left,
                 !.arenaLog.exits2D = 0],
              layout, draws, failure = "initialize")))

\* enterTrainingArena2D with targets that stand still
enterTrainingArena2D(w, layout, failure) ==
    enterTrainingArenaWith(w, layout, StillTargets, failure)

(***************************************************************************)
(* trainingChallengeSetup.js and threeSetup.js: the timed 3D training      *)
(* challenge.  The camera is not followed: whether the player stands at a  *)
(* portal is an input of the frame.                                        *)
(***************************************************************************)
\* this.timeRemaining = 60, in seconds
ChallengeTime == 60
\* MAX_DELTA_TIME, in ms
MAX_DELTA_TIME == 100
\* The cap of the frame loop on deltaTime, in ms
FrameCap == 100

\* new TrainingChallengeManager(...) and initialize()
TrainingChallengeManager(id) ==
    [id |-> id, isActive |-> TRUE, firstUpdate |-> TRUE,
     timeRemaining |-> ChallengeTime * 1000]

\* cleanup()
cleanupChallenge(w) == [w EXCEPT !.challenge.isActive = FALSE]

\* exitChallenge() of the manager 'id'
exitChallenge(w, id) ==
    [(IF w.challenge.id = id THEN cleanupChallenge(w) ELSE w)
       EXCEPT !.gs = setMode(@, "3D")]

\* enterTrainingChallenge(scene, camera, renderer, controls); failure: the
\* constructor throws, initialize() fails and its catch block runs
\* exitChallenge(), or neither.
enterTrainingChallenge(w, failure) ==
    LET cleaned == IF w.challenge # Null THEN cleanupChallenge(w) ELSE w
        called(w1) ==
          [w1 EXCEPT !.arenaLog.entries = @ + 1,
                     !.arenaLog.last = "enter",
                     !.arenaLog.failure = failure]
        made(w1) ==
          [(IF failure = "initialize"
            THEN exitChallenge(w1, w1.challenge.id) ELSE w1)
             EXCEPT !.arenaLog.ticks3D = 0, !.arenaLog.ticked3D = 0,
                    !.arenaLog.first3D = 0, !.arenaLog.ends3D = 0]
    IN IF failure = "constructor"
       THEN called([cleaned EXCEPT !.gs = setMode(@, "3D")])
       ELSE called(made(
              [cleaned EXCEPT !.challenge =
                 TrainingChallengeManager(w.arenaLog.entries + 1)]))

\* endChallenge()
endChallenge3D(w) ==
    [w EXCEPT !.arenaLog.ends3D = @ + 1,
              !.timers = Append(@, [kind |-> "exitChallenge",
                                    call |-> w.challenge.id,
                                    from |-> NoMode, to |-> NoMode,
                                    left |-> ExitDelay])]

\* checkExitPortalProximity()
checkExitPortalProximity3D(w, atExit) ==
    IF atExit /\ w.gs.keys["e"]
    THEN [exitChallenge(w, w.challenge.id) EXCEPT !.gs.keys["e"] = FALSE]
    ELSE w

\* update(deltaTime), deltaTime in ms: the world after it and its result
challengeUpdate(w, deltaTime, atExit) ==
    LET capped == IF deltaTime < MAX_DELTA_TIME THEN deltaTime
                  ELSE MAX_DELTA_TIME
        counted(w1) ==
          IF w1.challenge.timeRemaining <= 0
          THEN [w |-> endChallenge3D(w1), active |-> FALSE]
          ELSE [w |-> checkExitPortalProximity3D(w1, atExit), active |-> TRUE]
    IN IF ~w.challenge.isActive THEN [w |-> w, active |-> FALSE]
       ELSE IF w.challenge.firstUpdate
       THEN [w |-> [w EXCEPT !.challenge.firstUpdate = FALSE], active |-> TRUE]
       ELSE counted([w EXCEPT !.challenge.timeRemaining = @ - capped])

\* updateTrainingChallenge(deltaTime)
updateTrainingChallenge(w, deltaTime, atExit) ==
    IF w.challenge # Null /\ w.challenge.isActive
    THEN challengeUpdate(
           [w EXCEPT !.arenaLog.last = "update",
                     !.arenaLog.ticks3D = @ + 1,
                     !.arenaLog.ticked3D = @ + deltaTime,
                     !.arenaLog.first3D =
                        IF w.arenaLog.ticks3D = 0 THEN deltaTime ELSE @],
           deltaTime, atExit)
    ELSE [w |-> w, active |-> FALSE]

\* updateThreeScene(deltaTime, ...): the training challenge and the portal
\* that leads to it
updateThreeScene(w, deltaTime, atTraining, atExit, failure) ==
    LET left(r) == IF r.active THEN r.w ELSE [r.w EXCEPT !.gs.mode = "3D"]
    IN IF w.gs.isPaused THEN w
       ELSE IF w.gs.mode = "TRAINING_CHALLENGE"
       THEN left(updateTrainingChallenge(w, deltaTime, atExit))
       ELSE IF atTraining /\ w.gs.keys["e"]
       THEN enterTrainingChallenge(
              [w EXCEPT !.gs.mode = "TRAINING_CHALLENGE",
                        !.gs.keys["e"] = FALSE],
              failure)
       ELSE w

(***************************************************************************)
(* Specification of the training arenas: the player is in the 3D world or  *)
(* in the free-roam 2D world, enters an arena, plays until its time is up  *)
(* or enters again; enterTrainingArena2D is called by arbitrary callers.   *)
(***************************************************************************)
\* update2D with a player who never turns to the left.
update2DFacingRight(w) ==
    LET turned(g) == [updatePlayerMovement(g) EXCEPT
                        !.playerFacingDirection = 1]
    IN IF w.gs.isPaused THEN w ELSE [w EXCEPT !.gs = turned(@)]

\* twoDSetup.js: update2D(deltaTime, state) with no bullet in flight.  Its
\* statements up to the bullet loop are those of updatePlayerMovement.
update2D(w) ==
    IF w.gs.isPaused THEN w ELSE [w EXCEPT !.gs = updatePlayerMovement(@)]

MaxEntries == 2
MaxWalk == 2

\* The time between two animation frames, in ms
TickMs == {1000, 20000}

\* What goes wrong when an arena is entered
Failures == {"none", "constructor", "initialize"}

RoamSpots ==
    {Pos(Px(100), Px(innerHeight - 100)), Pos(Px(250), Px(innerHeight - 200))}

PlatformLayouts ==
    {[i \in 1..5 |-> 0], [i \in 1..5 |-> IF i = 1 THEN innerWidth - 200 ELSE 0]}

\* The player has walked fewer than MaxWalk steps from where the arena puts
\* them.
CanWalk ==
    \/ trainingArena2DManager.isEnding
    \/ gameState.playerPosition.x < Px(100) + MaxWalk * moveSpeed

InitArena ==
    \E mode \in {"3D", "2D"}, spot \in RoamSpots :
        Start([worldInit("default") EXCEPT
                 !.gs = [init2DEnvironment(
                           IF mode = "3D" THEN @ ELSE setMode(@, mode))
                           EXCEPT !.playerPosition = spot]])

EnterTrainingArena2D ==
    /\ Idle
    /\ gameState.mode \in {"2D", "2D_TRAINING"}
    /\ arenaLog.entries < MaxEntries
    /\ \E layout \in PlatformLayouts, failure \in Failures :
          Commit(enterTrainingArena2D(World, layout, failure))

\* An animation frame of PixiScene in the training arena.
ArenaFrame ==
    /\ Idle
    /\ NoTimerDue
    /\ gameState.mode = "2D_TRAINING"
    /\ gameState.keys["d"] => CanWalk
    /\ \E deltaTime \in TickMs :
          Commit(updateTrainingArena2D(elapseBy(World, deltaTime), deltaTime))

\* The function given to setTimeout(..., 5000) by endChallenge.
FireExitArena ==
    /\ Idle
    /\ \E i \in DOMAIN timers :
          /\ Due(i) /\ timers[i].kind = "exitArena"
          /\ Commit(exitArena([World EXCEPT !.timers = removeAt(@, i)]))

\* An animation frame of ThreeScene.
ThreeFrame ==
    /\ Idle
    /\ NoTimerDue
    /\ gameState.mode \in {"3D", "TRAINING_CHALLENGE"}
    /\ \E deltaTime \in TickMs, atTraining \in BOOLEAN, atExit \in BOOLEAN,
          failure \in Failures :
          /\ atTraining => arenaLog.entries < MaxEntries
          /\ Commit(updateThreeScene(
                      elapseBy(World, deltaTime),
                      IF deltaTime < FrameCap THEN deltaTime ELSE FrameCap,
                      atTraining, atExit, failure))

FireExitChallenge ==
    /\ Idle
    /\ \E i \in DOMAIN timers :
          /\ Due(i) /\ timers[i].kind = "exitChallenge"
          /\ Commit(exitChallenge([World EXCEPT !.timers = removeAt(@, i)],
                                  timers[i].call))

ArenaKeys ==
    IF gameState.mode = "2D" THEN {"l"}
    ELSE IF gameState.mode = "2D_TRAINING" THEN {"d"} ELSE {"e"}

ArenaKeyDown ==
    /\ Idle
    /\ \E key \in ArenaKeys :
          /\ ~gameState.keys[key]
          /\ key = "l" => gameState.bulletsCreated < MaxShots
          /\ key = "d" => CanWalk
          /\ Commit([lKeyHandler(keydown(World, key), key)
                       EXCEPT !.arenaLog.last = "key"])

ArenaKeyUp ==
    /\ Idle
    /\ \E key \in ArenaKeys :
          /\ gameState.keys[key]
          /\ Commit([keyup(World, key) EXCEPT !.arenaLog.last = "key"])

NextArena ==
    \/ EnterTrainingArena2D
    \/ ArenaFrame
    \/ FireExitArena
    \/ ThreeFrame
    \/ FireExitChallenge
    \/ ArenaKeyDown
    \/ ArenaKeyUp

SpecArena == InitArena /\ [][NextArena]_vars

(***************************************************************************)
(* Specification of the 2D training arena as the game itself plays it:     *)
(* update2D, the caller of enterTrainingArena2D, runs in the free-roam     *)
(* world only; the animation frames go on and a due timer runs.             *)
(***************************************************************************)
EnterFromRoam ==
    /\ gameState.mode = "2D"
    /\ EnterTrainingArena2D

NextArenaLive ==
    \/ EnterFromRoam
    \/ ArenaFrame
    \/ FireExitArena
    \/ ArenaKeyDown
    \/ ArenaKeyUp

\* The states in which an animation frame of the arena changes the state:
\* the arena is counting, or it is ending and its exit timer is pending.
FrameEnabled ==
    /\ Idle
    /\ NoTimerDue
    /\ gameState.mode = "2D_TRAINING"
    /\ gameState.keys["d"] => CanWalk
    /\ trainingArena2DManager # Null
    /\ trainingArena2DManager.isActive
    /\ trainingArena2DManager.isEnding => timers # <<>>

\* The states in which the exit timer of the arena is due.
ExitEnabled ==
    /\ Idle
    /\ \E i \in DOMAIN timers : Due(i) /\ timers[i].kind = "exitArena"

\* Weak fairness of the frames and of the due timer, the enabling condition
\* of each written out: requestAnimationFrame keeps the frames coming, and
\* the event loop runs a timer that is due.
SpecArenaLive ==
    /\ InitArena
    /\ [][NextArenaLive]_vars
    /\ ([]<>(~FrameEnabled) \/ []<><<ArenaFrame>>_vars)
    /\ ([]<>(~ExitEnabled) \/ []<><<FireExitArena>>_vars)

(***************************************************************************)
(* Specification of the update loops of the 2D modes over game states with *)
(* and without the pause flag: the task game or the training arena has     *)
(* just been entered.                                                      *)
(***************************************************************************)
InitPaused ==
    \E paused \in BOOLEAN :
        \/ \E config \in TaskConfigs, spot \in StartSpots :
              /\ spot.platform <= Len(config)
              /\ Start([taskGameEntered(tasksOf(config), spot)
                          EXCEPT !.gs.isPaused = paused])
        \/ \E layout \in PlatformLayouts, spot \in RoamSpots :
              Start([enterTrainingArena2D(
                       [worldInit("default") EXCEPT
                          !.gs = [init2DEnvironment(setMode(@, "2D"))
                                    EXCEPT !.playerPosition = spot]],
                       layout, "none")
                       EXCEPT !.gs.isPaused = paused])

NextPaused ==
    \/ Frame
    \/ ArenaFrame
    \/ FireExitArena
    \/ KeyDown
    \/ KeyUp

SpecPaused == InitPaused /\ [][NextPaused]_vars

(***************************************************************************)
(* Specification of the player walking and jumping in the 2D world, the    *)
(* task game and the 2D training arena.                                    *)
(***************************************************************************)
MoveKeys == {"a", "d", "w"}

\* Where the player stands in the task game when the run starts: by the
\* left and the right edge of the canvas, and on the platform of the task,
\* at its middle and by its right edge.
MoveSpots ==
    {[x |-> 5, platform |-> 0, facing |-> 1],
     [x |-> innerWidth - 45, platform |-> 0, facing |-> 1],
     [x |-> 190, platform |-> 1, facing |-> 1],
     [x |-> 345, platform |-> 1, facing |-> -1]}

\* The x the update of the mode moves.
playerX(g) ==
    IF g.mode = "TASK_GAME" THEN g.taskGamePosition.x ELSE g.playerPosition.x

playerY(g) ==
    IF g.mode = "TASK_GAME" THEN g.taskGamePosition.y ELSE g.playerPosition.y

Max(S) == CHOOSE n \in S : \A k \in S : n >= k

\* The player stays within MaxWalk steps of one of the starting points.
\* The player has walked to the left edge of the free-roam world.
EdgeSpot == Pos(Px(5), Px(innerHeight - 100))

WalkStarts ==
    {Px(spot.x) : spot \in MoveSpots} \cup {spot.x : spot \in RoamSpots}
        \cup {EdgeSpot.x}

CanStep ==
    \E start \in WalkStarts :
        /\ playerX(gameState) >= start - MaxWalk * moveSpeed
        /\ playerX(gameState) <= start + MaxWalk * moveSpeed
        /\ gameState.keys["d"] =>
              playerX(gameState) < start + MaxWalk * moveSpeed
        /\ gameState.keys["a"] /\ ~gameState.keys["d"] =>
              playerX(gameState) > start - MaxWalk * moveSpeed

InitMove ==
    \/ \E spot \in MoveSpots :
          Start(taskGameEntered(tasksOf(<<FALSE>>), spot))
    \/ \E spot \in RoamSpots, inArena \in BOOLEAN :
          LET roam == [worldInit("default") EXCEPT
                         !.gs = [init2DEnvironment(setMode(@, "2D"))
                                   EXCEPT !.playerPosition = spot]]
          IN Start(IF inArena
                   THEN enterTrainingArena2D(roam, [i \in 1..5 |-> 0], "none")
                   ELSE roam)
    \/ Start([worldInit("default") EXCEPT
                !.gs = [init2DEnvironment(setMode(@, "2D"))
                          EXCEPT !.playerPosition = EdgeSpot]])

\* The player jumps in the task game only.
MoveKeyDown ==
    /\ Idle
    /\ \E key \in MoveKeys :
          /\ ~gameState.keys[key]
          /\ key = "w" => gameState.mode = "TASK_GAME"
          /\ Commit(lKeyHandler(keydown(World, key), key))

MoveKeyUp ==
    /\ Idle
    /\ \E key \in MoveKeys :
          /\ gameState.keys[key]
          /\ Commit(keyup(World, key))

\* An animation frame in the free-roam 2D world, no bullet in flight.
Frame2D ==
    /\ Idle
    /\ NoTimerDue
    /\ gameState.mode = "2D"
    /\ gameState.bullets = <<>>
    /\ CanStep
    /\ Commit(update2D(elapse(World)))

FrameTaskGame == CanStep /\ Frame

FrameArena == CanStep /\ ArenaFrame

NextMove ==
    \/ Frame2D
    \/ FrameTaskGame
    \/ FrameArena
    \/ FireExitArena
    \/ MoveKeyDown
    \/ MoveKeyUp

SpecMove == InitMove /\ [][NextMove]_vars

(***************************************************************************)
(* Specification of a fall in the three platformer loops: the player has   *)
(* stepped off a high platform and is in the air, already falling fast,    *)
(* in the free-roam world, in the task game or in the training arena.      *)
(***************************************************************************)
\* The falling speed the run starts with, and how far above the place they
\* stood on the player is (px).
FallSpeeds == {Px(14), Px(15)}
FallHeights == {60, 100}

falling(g, v, h) ==
    [g EXCEPT !.velocity = Pos(0, v),
              !.isJumping = TRUE,
              !.playerPosition.y = @ - Px(h),
              !.taskGamePosition.y =
                  IF g.mode = "TASK_GAME" THEN @ - Px(h) ELSE @]

InitFall ==
    \E v \in FallSpeeds, h \in FallHeights :
        \/ \E spot \in MoveSpots :
              Start([taskGameEntered(tasksOf(<<FALSE>>), spot)
                       EXCEPT !.gs = falling(@, v, h)])
        \/ \E spot \in RoamSpots, inArena \in BOOLEAN :
              LET roam == [worldInit("default") EXCEPT
                             !.gs = [init2DEnvironment(setMode(@, "2D"))
                                       EXCEPT !.playerPosition = spot]]
                  w == IF inArena
                       THEN enterTrainingArena2D(roam, [i \in 1..5 |-> 0],
                                                 "none")
                       ELSE roam
              IN Start([w EXCEPT !.gs = falling(@, v, h)])

JumpKeyDown ==
    /\ Idle
    /\ ~gameState.keys["w"]
    /\ Commit(lKeyHandler(keydown(World, "w"), "w"))

JumpKeyUp ==
    /\ Idle
    /\ gameState.keys["w"]
    /\ Commit(keyup(World, "w"))

\* The player jumps again at most from where the fall ends.
NearGround ==
    gameState.keys["w"] =>
        playerY(gameState) >= Px(innerHeight - 100 - Max(FallHeights))

NextFall ==
    \/ NearGround /\ Frame2D
    \/ NearGround /\ FrameTaskGame
    \/ NearGround /\ FrameArena
    \/ FireExitArena
    \/ JumpKeyDown
    \/ JumpKeyUp

SpecFall == InitFall /\ [][NextFall]_vars

(***************************************************************************)
(* PixiScene.jsx: the animation loop.  Specification of the frames of a    *)
(* task game session: the player shoots, a hit may close the task game or  *)
(* start a challenge, and every frame goes through the dispatch tables.    *)
(***************************************************************************)
TwoDModes == {"2D", "2D_TRAINING", "2D_TASK_ARENA", "TASK_GAME"}

\* updateFunctionsRef.current[key](deltaTime).  updateTaskArena2D draws on
\* the arena's own state; its completion is the event TaskArenaComplete.
updateFunction(w, key, deltaTime) ==
    LET w1 == [w EXCEPT !.frameLog.called =
                            Append(@, [fn |-> "update", of |-> key])]
    IN CASE key = "2D" -> IF w1.gs.canvas THEN update2D(w1) ELSE w1
         [] key = "2D_TRAINING" -> updateTrainingArena2D(w1, deltaTime)
         [] key = "2D_TASK_ARENA" -> w1
         [] key = "TASK_GAME" ->
                IF w1.gs.canvas THEN updateTaskGame(w1) ELSE w1

\* renderFunctionsRef.current[key]()
renderFunction(w, key) ==
    [w EXCEPT !.frameLog.called = Append(@, [fn |-> "render", of |-> key])]

startFrame(w) ==
    [w EXCEPT !.frameLog = [mode |-> w.gs.mode,
                            previousFrameMode |-> w.frameLog.mode,
                            bullets |-> w.gs.bullets,
                            called |-> <<>>,
                            modeAfterUpdate |-> w.gs.mode]]

noteUpdate(w) == [w EXCEPT !.frameLog.modeAfterUpdate = w.gs.mode]

\* A loop that looks the render function up after the update has run.
animateLookingUpLate(w, deltaTime) ==
    LET rendered(u) == renderFunction(u, u.gs.mode)
    IN IF ~w.gs.canvas THEN w
       ELSE IF w.gs.mode \in TwoDModes
       THEN rendered(noteUpdate(
              updateFunction(startFrame(w), w.gs.mode, deltaTime)))
       ELSE startFrame(w)

\* animate(time): both functions are looked up with the mode the frame
\* starts in, then the update and the render function are called.
animate(w, deltaTime) ==
    IF ~w.gs.canvas THEN w
    ELSE IF w.gs.mode \in TwoDModes
    THEN renderFunction(
           noteUpdate(updateFunction(startFrame(w), w.gs.mode, deltaTime)),
           w.gs.mode)
    ELSE startFrame(w)

\* An animation frame of PixiScene, FrameMs after the last one.
Animate ==
    /\ Idle
    /\ NoTimerDue
    /\ gameState.keys["l"] => gameState.bulletsCreated < MaxShots
    /\ gameState.mode = "2D" => gameState.bullets = <<>>
    /\ Commit(animate(elapse(World), FrameMs))

\* The player uses the keys in the task game.
AnimateKeyDown == gameState.mode = "TASK_GAME" /\ KeyDown

NextAnimate ==
    \/ Animate
    \/ AnimateKeyDown
    \/ KeyUp
    \/ AddTask
    \/ CancelTask
    \/ TaskArenaComplete
    \/ FirePost
    \/ FireKeyCheck
    \/ FireKeyReset
    \/ RunJob

SpecAnimate == InitTask /\ [][NextAnimate]_vars

(***************************************************************************)
(* Specification of the targets of the training arena: the player stands   *)
(* where the arena puts them and shoots at targets that drift through the  *)
(* line of fire; the fire key is handled by the listener that knows the    *)
(* arena (the other inputManager.js of the repository).                    *)
(***************************************************************************)
\* shootInTrainingArena()
shootInTrainingArena(w) ==
    IF w.arena # Null /\ w.arena.isActive
    THEN [w EXCEPT !.gs = createBullet(@)]
    ELSE w

\* The keydown listener of the inputManager.js that dispatches on the mode,
\* for the key 'l'.  handleLKeyInTaskArena belongs to the task arena.
keydownDispatch(w) ==
    LET w1 == [w EXCEPT !.gs.keys["l"] = TRUE, !.firePress = NoPress]
        noted(w2) ==
          [w2 EXCEPT !.firePress = shotAfter(@, w1.sinceLastShot, "keydown")]
        shot(w2) ==
          CASE w2.gs.mode = "2D" -> noted([w2 EXCEPT !.gs = shoot2D(@)])
            [] w2.gs.mode = "2D_TRAINING" ->
                 IF w2.arena # Null /\ w2.arena.isActive
                 THEN noted(shootInTrainingArena(w2))
                 ELSE w2
            [] w2.gs.mode = "TASK_GAME" ->
                 noted([w2 EXCEPT !.gs = shootTaskGame(@)])
            [] OTHER -> w2
    IN IF w1.sinceLastShot > w1.gs.shootCooldown
       THEN shot([w1 EXCEPT !.sinceLastShot = 0])
       ELSE w1

\* What Math.random() comes to in createTarget(): a target that stands
\* still in the upper left corner, one that stands in the line of fire of a
\* player on the platform below the exit portal, and one that drifts through
\* that line.  Lengths in half pixels; the speed is below TARGET_SPEED_MAX.
StandsInLine ==
    [x |-> Px(540), y |-> Px(100), isMoving |-> FALSE, vx |-> 0, vy |-> 0]

Drifts ==
    [x |-> Px(500), y |-> Px(80), isMoving |-> TRUE, vx |-> -5, vy |-> 5]

TargetDraws == {StillDraw, StandsInLine, Drifts}

\* The targets createTargets() made.
TargetLayouts ==
    {[i \in 1..targetCount |->
        IF i = 1 THEN StandsInLine
        ELSE IF i = 2 THEN second ELSE StillDraw] :
     second \in {StillDraw, Drifts}}

\* The seconds the arena has left when the run starts
SecondsLeft == 12

\* The player has entered the arena from the free-roam world, has climbed
\* the platform below the exit portal and looks back at the targets.
InitTargets ==
    \E draws \in TargetLayouts :
        Start([enterTrainingArenaWith(
                 [worldInit("default") EXCEPT
                    !.gs = init2DEnvironment(setMode(@, "2D"))],
                 [i \in 1..5 |-> IF i = 1 THEN innerWidth - 200 ELSE 0],
                 draws, "none")
                 EXCEPT !.gs.playerPosition =
                            Pos(Px(innerWidth - 100), Px(innerHeight - 200)),
                        !.gs.playerFacingDirection = -1,
                        !.arena.timeRemaining = SecondsLeft * 1000])

\* The player taps the fire key: keydown, with both listeners, and keyup.
ShootInArena ==
    /\ Idle
    /\ gameState.mode = "2D_TRAINING"
    /\ gameState.bulletsCreated < MaxShots
    /\ Commit(keyup(lKeyHandler(keydownDispatch(World), "l"), "l"))

FireKeyUp ==
    /\ Idle
    /\ gameState.keys["l"]
    /\ Commit(keyup(World, "l"))

\* The function given to setTimeout(..., 1000) by checkBulletCollisions.
FireCreateTarget ==
    /\ Idle
    /\ \E i \in DOMAIN timers, draw \in TargetDraws :
          /\ Due(i) /\ timers[i].kind = "createTarget"
          /\ Commit(replaceTarget([World EXCEPT !.timers = removeAt(@, i)],
                                  timers[i].call, draw))

\* The player stands within reach of the exit portal.
AtExitPortal ==
    LET portal == trainingArena2DManager.exitPortal
        dx == (gameState.playerPosition.x + Px(20))
                - (portal.x + portal.width \div 2)
        dy == (gameState.playerPosition.y + Px(25))
                - (portal.y + portal.height \div 2)
    IN /\ trainingArena2DManager # Null
       /\ portal # Null
       /\ dx * dx + dy * dy < Px(50) * Px(50)

\* The player presses or releases the exit key at the portal.
ExitKey ==
    /\ Idle
    /\ gameState.mode = "2D_TRAINING"
    /\ AtExitPortal
    /\ Commit(IF gameState.keys["e"] THEN keyup(World, "e")
              ELSE lKeyHandler(keydown(World, "e"), "e"))

\* The arena is entered again, by whoever calls enterTrainingArena2D.
EnterAgain ==
    /\ Idle
    /\ gameState.mode \in {"2D", "2D_TRAINING"}
    /\ arenaLog.entries < MaxEntries
    /\ \E failure \in Failures :
          Commit(enterTrainingArena2D(World, [i \in 1..5 |-> 0], failure))

NextTargets ==
    \/ ArenaFrame
    \/ ShootInArena
    \/ ExitKey
    \/ FireCreateTarget
    \/ FireExitArena
    \/ EnterAgain

SpecTargets == InitTargets /\ [][NextTargets]_vars

(***************************************************************************)
(* Specification of the fire key: the player is in the task game, in the   *)
(* free-roam 2D world or in the training arena and presses and releases    *)
(* the fire key while the frames go by.                                    *)
(***************************************************************************)
\* twoDSetup.js, lines 134-155: the loop over the enemies for the bullet at
\* index i, from the last enemy to the first.
enemiesLoop(w, i, b) ==
    LET enemies == w.gs.enemies
        hit == {j \in 0..(Len(enemies) - 1) : inside(b, At(enemies, j))}
        j == Max(hit)
        health == At(enemies, j).health - 1
    IN [w EXCEPT
          !.gs.bullets = splice(@, i),
          !.gs.enemies = IF health <= 0 THEN splice(@, j)
                         ELSE [@ EXCEPT ![j + 1].health = health],
          !.gs.score = IF health <= 0 THEN @ + 10 ELSE @]

\* Lines 163-268: the loop over the game apps for the same bullet, from the
\* first app on.  No game app is the task challenge; alert() changes nothing.
gameAppsLoop(w, i, b, layout, failure) ==
    LET apps == w.gs.gameApps
        app == apps[Min({k \in DOMAIN apps : inside(b, apps[k])})]
        w1 == [w EXCEPT !.gs.bullets = splice(@, i)]
    IN IF app.type = "portal" THEN [w1 EXCEPT !.gs = setMode(@, "3D")]
       ELSE IF app.app = "tasks" THEN enterTaskGame(w1)
       ELSE IF app.app = "training"
       THEN IF w1.gs.canvas THEN enterTrainingArena2D(w1, layout, failure)
            ELSE w1
       ELSE w1

\* Lines 107-271: the body of the loop over the bullets, for index i.
bulletStep2D(w, i, layout, failure) ==
    IF i >= Len(w.gs.bullets) THEN w
    ELSE LET old == At(w.gs.bullets, i)
             b == [old EXCEPT !.x = @ + old.vx, !.y = @ + old.vy]
             w1 == [w EXCEPT !.gs.bullets[i + 1] = b]
         IN IF offscreen(b) THEN [w1 EXCEPT !.gs.bullets = splice(@, i)]
            ELSE IF \E j \in DOMAIN w1.gs.enemies : inside(b, w1.gs.enemies[j])
            THEN enemiesLoop(w1, i, b)
            ELSE IF \E k \in DOMAIN w1.gs.gameApps :
                       inside(b, w1.gs.gameApps[k])
            THEN gameAppsLoop(w1, i, b, layout, failure)
            ELSE w1

\* for (let i = state.bullets.length - 1; i >= 0; i--)
RECURSIVE bulletsLoop2D(_, _, _, _)
bulletsLoop2D(w, i, layout, failure) ==
    IF i < 0 THEN w
    ELSE bulletsLoop2D(bulletStep2D(w, i, layout, failure), i - 1,
                       layout, failure)

\* twoDSetup.js: update2D(deltaTime, state), bullets included.  layout and
\* failure: what an entry into the training arena comes to.
update2DWithBullets(w, layout, failure) ==
    IF w.gs.isPaused THEN w
    ELSE bulletsLoop2D([w EXCEPT !.gs = updatePlayerMovement(@)],
                       Len(w.gs.bullets) - 1, layout, failure)

InitFire ==
    \/ InitTask
    \/ \E spot \in RoamSpots, inArena \in BOOLEAN :
          LET roam == [worldInit("default") EXCEPT
                         !.gs = [init2DEnvironment(setMode(@, "2D"))
                                   EXCEPT !.playerPosition = spot]]
          IN Start(IF inArena
                   THEN enterTrainingArena2D(roam, [i \in 1..5 |-> 0], "none")
                   ELSE roam)

\* An animation frame in the free-roam 2D world.
FireFrame2D ==
    /\ Idle
    /\ NoTimerDue
    /\ gameState.mode = "2D"
    /\ gameState.canvas
    /\ \E layout \in PlatformLayouts :
          Commit(update2DWithBullets(elapse(World), layout, "none"))

\* The time between two frames of the arena, in ms
ArenaTickMs == 5000

\* An animation frame in the training arena.
FireFrameArena ==
    /\ Idle
    /\ NoTimerDue
    /\ gameState.mode = "2D_TRAINING"
    /\ Commit(updateTrainingArena2D(elapseBy(World, ArenaTickMs),
                                    ArenaTickMs))

\* Time passes in the task arena.
ElapseInTaskArena ==
    /\ gameState.mode = "2D_TASK_ARENA"
    /\ Elapse

\* keydown of the fire key: the listener of inputManager.js, then the
\* listener of the arena's manager.
FireKeyDown ==
    /\ Idle
    /\ ~gameState.keys["l"]
    /\ gameState.bulletsCreated < MaxShots
    /\ Len(calls) < MaxCalls
    /\ Commit(lKeyHandler(keydown(World, "l"), "l"))

\* The same keydown with the listener that dispatches on the mode.
FireKeyDownDispatch ==
    /\ Idle
    /\ ~gameState.keys["l"]
    /\ gameState.bulletsCreated < MaxShots
    /\ Len(calls) < MaxCalls
    /\ Commit(lKeyHandler(keydownDispatch(World), "l"))

NextFire ==
    \/ Frame
    \/ FireFrame2D
    \/ FireFrameArena
    \/ ElapseInTaskArena
    \/ FireKeyDown
    \/ FireKeyDownDispatch
    \/ FireKeyUp
    \/ AddTask
    \/ CancelTask
    \/ TaskArenaComplete
    \/ FirePost
    \/ FireKeyCheck
    \/ FireKeyReset
    \/ FireExitArena
    \/ RunJob

SpecFire == InitFire /\ [][NextFire]_vars

(***************************************************************************)
(* Properties of the transition manager                                    *)
(***************************************************************************)
LastCall == calls[Len(calls)]

\* C1: after any sequence of transitionGameMode calls, overlapping ones
\* included, whenever isInModeTransition() is false gameState.mode is the
\* target of the most recently issued call.
C1_ModeIsLatestTarget ==
    (calls # <<>> /\ ~isInModeTransition) => gameState.mode = LastCall.to

\* Two calls to different targets overlapped, the flag is down again and the
\* later call's own timer is still pending.
C1_Witness ==
    /\ Len(calls) >= 2
    /\ ~isInModeTransition
    /\ calls[Len(calls) - 1].to # LastCall.to
    /\ calls[Len(calls) - 1].post /\ ~LastCall.post

\* C2: isInModeTransition() is true at every point between a call and that
\* call's own post-transition notification.
C2_FlagUntilOwnPost ==
    \A i \in DOMAIN calls : ~calls[i].post => isInModeTransition

\* C3: every non-null callback is invoked exactly once, and only after the
\* post-transition notification of its own call.
C3_CallbackOnceAfterOwnPost ==
    \A i \in DOMAIN calls :
        calls[i].hasCallback =>
            /\ ~calls[i].cbBeforePost
            /\ calls[i].cbCount = IF calls[i].post THEN 1 ELSE 0

(***************************************************************************)
(* Specification of the storage service: a task list is saved and read     *)
(* back                                                                    *)
(***************************************************************************)
MaxStoredTasks == 2

\* Texts a user can type, among them ones with characters JSON escapes.
Texts == {<<>>, <<"a">>, <<Quote>>, <<Backslash>>, <<"a", Quote>>,
          <<Backslash, Quote>>, <<Quote, ",", Quote>>}

StoredTask ==
    [id : {<<"t">>}, text : Texts, completed : BOOLEAN,
     requiredScore : {DefaultRequiredScore}]
    \cup [text : {<<"a">>, <<Quote>>}, completed : {FALSE}]

TaskLists == UNION {[1..n -> StoredTask] : n \in 0..MaxStoredTasks}

\* What localStorage may hold when the page loads: nothing, a saved list,
\* or text that is not JSON.
StoredAtLoad ==
    {<<>>, stringifyTasks(<<[text |-> <<"a">>, completed |-> FALSE]>>),
     <<"[", "{">>, <<Quote, "a">>}

InitStore ==
    \E t \in TaskLists, item \in StoredAtLoad :
        Start([worldInit("app") EXCEPT
                 !.storage = initializeStorage([tasks |-> item, tokens |-> <<>>]),
                 !.storeLog = [op |-> "load", arg |-> t]])

\* taskStorage.saveTasks(t)
SaveTasks ==
    /\ storeLog.op \in {"load", "resave"}
    /\ Commit([World EXCEPT !.storage = saveTasks(@, storeLog.arg),
                            !.storeLog.op = "saveTasks"])

\* taskStorage.saveTasks(taskStorage.getTasks())
Resave ==
    /\ storeLog.op \in {"load", "saveTasks"}
    /\ Commit([World EXCEPT !.storage = saveTasks(@, getTasks(storage)),
                            !.storeLog = [op |-> "resave",
                                          arg |-> getTasks(storage)]])

NextStore == SaveTasks \/ Resave

SpecStore == InitStore /\ [][NextStore]_vars

(***************************************************************************)
(* Specification of the reads of the storage service, over entries that    *)
(* this program or anything else of the origin left in localStorage.       *)
(***************************************************************************)
\* Entries under 'taskGame_tasks': a saved list, text that is not JSON, and
\* JSON that is no array.
TaskEntries ==
    {stringifyTasks(<<>>),
     stringifyTasks(<<[text |-> <<"a">>, completed |-> FALSE]>>),
     <<"[", "{">>, <<Quote, "a">>, <<"5">>, <<"true">>}

\* Entries under 'taskGame_tokens': a saved count, text that is not JSON,
\* and JSON that is no number.
TokenEntries ==
    {numberToString(0), numberToString(7), numberToString(12),
     <<"[", "{">>, <<Quote, "a">>, <<"true">>}

\* The text is JSON.stringify of an array of task objects.
SerializedTasks(item) == \E t \in TaskLists : item = stringifyTasks(t)

\* The text is JSON.stringify of a token count.
SerializedTokens(item) ==
    /\ item # <<>>
    /\ \A i \in DOMAIN item : item[i] \in DigitSet

\* The kind of value JSON.parse gives for a JSON text, which its first
\* character decides.
jsonKind(item) ==
    CASE charAt(item, 1) = "[" -> "array"
      [] charAt(item, 1) = "{" -> "object"
      [] charAt(item, 1) = Quote -> "string"
      [] charAt(item, 1) \in DigitSet -> "number"
      [] OTHER -> "boolean"

\* The kind of value getTasks() and getTokens() return: that of the parsed
\* entry, or that of the fallback.
kindRead(item, fallback) ==
    IF item = <<>> \/ ~jsonParse(item).ok THEN fallback ELSE jsonKind(item)

InitLoad ==
    \E tasks \in TaskEntries, tokens \in TokenEntries :
        Start([worldInit("app") EXCEPT
                 !.storage = initializeStorage([tasks |-> tasks,
                                                tokens |-> tokens])])

\* taskStorage.getTasks(), its result noted.
GetTasks ==
    /\ storeLog.op # "getTasks"
    /\ Commit([World EXCEPT
                 !.storeLog = [op |-> "getTasks", arg |-> getTasks(storage),
                               kind |-> kindRead(storage.tasks, "array")]])

\* taskStorage.getTokens(), its result noted.
GetTokens ==
    /\ storeLog.op # "getTokens"
    /\ Commit([World EXCEPT
                 !.storeLog = [op |-> "getTokens", arg |-> getTokens(storage),
                               kind |-> kindRead(storage.tokens, "number")]])

\* localStorage.removeItem(key) from outside the service, after which the
\* entry is missing.
RemoveItem ==
    /\ storeLog.op # "removeItem"
    /\ \E key \in {"tasks", "tokens"} :
          /\ storage[key] # <<>>
          /\ Commit([World EXCEPT !.storage[key] = <<>>,
                                  !.storeLog = [op |-> "removeItem",
                                                arg |-> <<>>]])

NextLoad == GetTasks \/ GetTokens \/ RemoveItem

SpecLoad == InitLoad /\ [][NextLoad]_vars

\* C9: after saveTasks(t), getTasks() returns a list equal to t, and after
\* saveTasks(getTasks()) the next getTasks() returns what the previous one
\* returned.
C9_RoundTrip ==
    storeLog.op \in {"saveTasks", "resave"} => getTasks(storage) = storeLog.arg

\* A list of two tasks, one with a quote and a backslash in its text, has
\* been saved, and a list has been read and saved again.
C9_Witness ==
    /\ storeLog.op = "resave"
    /\ Len(storeLog.arg) = 2
    /\ \E i \in 1..2 : "id" \in DOMAIN storeLog.arg[i]
                       /\ storeLog.arg[i].text = <<Backslash, Quote>>
    /\ storage.tasks # stringifyTasks(<<>>)

(***************************************************************************)
(* Properties of the task mini-game                                        *)
(***************************************************************************)
\* C4: when onTaskChallengeComplete(score) runs with score >= the
\* challenge's requiredScore, the task's completed flag becomes true and
\* taskTokens grows by exactly 1; otherwise both are unchanged.
C4_ChallengeOutcome ==
    completion.tag = "done" =>
        IF completion.score >= completion.requiredScore
        THEN /\ completion.completedAfter
             /\ completion.tokensAfter = completion.tokensBefore + 1
        ELSE /\ completion.completedAfter = completion.completedBefore
             /\ completion.tokensAfter = completion.tokensBefore

\* A challenge ended with exactly the required score, and the task that was
\* open is now completed in gameState.tasks and one token was added.
C4_Witness ==
    /\ completion.tag = "done"
    /\ completion.score = completion.requiredScore
    /\ ~completion.completedBefore
    /\ gameState.taskTokens = completion.tokensBefore + 1
    /\ \E i \in DOMAIN gameState.tasks : gameState.tasks[i].completed

objectWithOid(objs, oid) == CHOOSE k \in DOMAIN objs : objs[k].oid = oid

\* C6: an archive in updateTaskGame removes exactly one entry of tasks and
\* one of taskObjects, and the index of every remaining task object still
\* selects its own task: tasks[taskObj.index] is the task it was built for.
C6_ArchiveKeepsIndices ==
    \A n \in DOMAIN lastTick.archives :
        LET a == lastTick.archives[n]
            removed == At(a.objectsBefore, a.j)
        IN /\ Len(a.tasksAfter) = Len(a.tasksBefore) - 1
           /\ Len(a.objectsAfter) = Len(a.objectsBefore) - 1
           /\ a.tasksAfter = splice(a.tasksBefore, removed.index)
           /\ \A k \in DOMAIN a.objectsAfter :
                 LET obj == a.objectsAfter[k]
                     was == a.objectsBefore[objectWithOid(a.objectsBefore, obj.oid)]
                 IN /\ obj.oid # removed.oid
                    /\ obj.index < Len(a.tasksAfter)
                    /\ At(a.tasksAfter, obj.index) = At(a.tasksBefore, was.index)
                    /\ obj.index = IF was.index > removed.index
                                   THEN was.index - 1 ELSE was.index

\* The first of several task objects was archived in the last update.
C6_Witness ==
    \E n \in DOMAIN lastTick.archives :
        /\ lastTick.archives[n].j = 0
        /\ Len(lastTick.archives[n].objectsAfter) >= 1

\* The rectangle test of the claim: the point of the bullet lies strictly
\* inside the rectangle.
overlaps(bullet, r) ==
    /\ r.x < bullet.x /\ bullet.x < r.x + r.width
    /\ r.y < bullet.y /\ bullet.y < r.y + r.height

leftCanvas(bullet) ==
    \/ bullet.x < 0 \/ bullet.x > Px(innerWidth)
    \/ bullet.y < 0 \/ bullet.y > Px(innerHeight)

Pending(name) == \E i \in DOMAIN jobs : jobs[i].name = name

C5_EndsOnceAfterSixtySeconds ==
    /\ arenaLog.ends2D <= 1
    /\ arenaLog.ends3D <= 1
    /\ (trainingArena2DManager # Null
          /\ arenaLog.ticked2D >= TRAINING_TIME * 1000) =>
          /\ trainingArena2DManager.timeRemaining <= 0
          /\ arenaLog.ends2D = 1
    /\ (trainingChallengeManager # Null
          /\ arenaLog.ticked3D >= ChallengeTime * 1000) =>
          /\ trainingChallengeManager.timeRemaining <= 0
          /\ arenaLog.ends3D = 1

\* C5, amended: the 2D arena has executed endChallenge exactly once when its
\* ticks sum to 60 seconds or more and not at all before; the 3D challenge
\* discards its first tick, so it has executed endChallenge exactly once when
\* the ticks after the first sum to 60 seconds or more and not at all before;
\* in both, timeRemaining is <= 0 exactly when endChallenge has been executed.
C5_EndsOnceWhenCountedTimeIsUp ==
    /\ trainingArena2DManager # Null =>
          /\ arenaLog.ends2D =
                IF arenaLog.ticked2D >= TRAINING_TIME * 1000 THEN 1 ELSE 0
          /\ trainingArena2DManager.timeRemaining <= 0 <=> arenaLog.ends2D = 1
          /\ trainingArena2DManager.isEnding <=> arenaLog.ends2D = 1
    /\ trainingChallengeManager # Null =>
          /\ arenaLog.ends3D =
                IF arenaLog.ticked3D - arenaLog.first3D >= ChallengeTime * 1000
                THEN 1 ELSE 0
          /\ trainingChallengeManager.timeRemaining <= 0
                <=> arenaLog.ends3D = 1

\* The 2D arena is in its ending state and has been updated after the tick
\* that ended it.
C5_Witness ==
    /\ trainingArena2DManager # Null
    /\ trainingArena2DManager.isActive
    /\ trainingArena2DManager.isEnding
    /\ arenaLog.last = "update"
    /\ arenaLog.ticked2D > TRAINING_TIME * 1000 + 1000
    /\ arenaLog.ends2D = 1

\* C11: an entry into the 2D arena whose constructor or initialize() failed
\* leaves the mode '2D', the mode is never '2D_TRAINING' while the arena
\* manager is missing or inactive, and an entry into the 3D challenge that
\* failed leaves the mode '3D'.
C11_FailedEntryFallsBack ==
    /\ (arenaLog.last = "enter" /\ arenaLog.failure # "none") =>
          gameState.mode \in {"2D", "3D"}
    /\ gameState.mode = "2D_TRAINING" =>
          (trainingArena2DManager # Null /\ trainingArena2DManager.isActive)

ArenaEnding ==
    /\ trainingArena2DManager # Null
    /\ trainingArena2DManager.isActive
    /\ trainingArena2DManager.isEnding

C10_ExitRestoresFreeRoam ==
    arenaLog.last = "exitArena" =>
        /\ gameState.platforms = arenaLog.roam.platforms
        /\ gameState.enemies = arenaLog.roam.enemies
        /\ gameState.gameApps = arenaLog.roam.gameApps
        /\ gameState.playerPosition = arenaLog.roam.playerPosition
        /\ gameState.mode = "2D"
        /\ gameState.bullets = <<>>
        /\ gameState.velocity = Pos(0, 0)


(***************************************************************************)
(* Properties of the transition manager in any player state                *)
(***************************************************************************)
\* C14: a transitionGameMode call from '2D_TASK_ARENA' to 'TASK_GAME' made
\* with a saved task-game position returns with taskGamePosition and
\* playerPosition equal to it, velocity (0, 0) and isJumping false; for every
\* other pair of modes preservePlayerState leaves playerPosition,
\* taskGamePosition, velocity, isJumping, isPaused and currentTaskChallenge
\* as they were.
C14_PreserveRestoresOnlyFromTaskArena ==
    [][Len(calls') = Len(calls) + 1 =>
         LET c == calls'[Len(calls')]
             saved == gameState.savedTaskGamePosition
         IN IF c.from = "2D_TASK_ARENA" /\ c.to = "TASK_GAME"
            THEN Truthy(saved) =>
                    /\ gameState'.taskGamePosition = Pos(saved.x, saved.y)
                    /\ gameState'.playerPosition = Pos(saved.x, saved.y)
                    /\ gameState'.velocity = Pos(0, 0)
                    /\ ~gameState'.isJumping
            ELSE c.preserved = PlayerState(gameState)]_vars

\* A call from the task arena back to the task game has just returned, the
\* player standing on the saved spot.
C14_Witness ==
    /\ calls # <<>>
    /\ calls[Len(calls)].from = "2D_TASK_ARENA"
    /\ calls[Len(calls)].to = "TASK_GAME"
    /\ ~calls[Len(calls)].post
    /\ gameState.savedTaskGamePosition = SavedSpot
    /\ gameState.playerPosition = SavedSpot
    /\ gameState.taskGamePosition = SavedSpot

\* C15: for every transitionGameMode call, every key of gameState.keys is
\* false when the call returns and again when the post-transition
\* notification is dispatched, whatever keys went down in between.
C15_KeysUpAtReturnAndAtPost ==
    \A i \in DOMAIN calls :
        /\ calls[i].returnKeys = AllKeysUp
        /\ calls[i].post => calls[i].postKeys = AllKeysUp

\* A post-transition notification went out while the player held a key.
C15_Witness ==
    \E i \in DOMAIN calls :
        /\ calls[i].post
        /\ calls[i].heldKeys # AllKeysUp
        /\ calls[i].postKeys = AllKeysUp

\* C16: the pre-transition notification is dispatched while the mode is
\* still the previous mode, the post-transition notification after the mode
\* was set to the target, the former before the latter, and both carry the
\* previous mode as 'from' and the target as 'to'.
C16_PreBeforeModeBeforePost ==
    /\ [](\A i \in DOMAIN calls :
            /\ calls[i].preMode = calls[i].from
            /\ IF calls[i].post
               THEN /\ calls[i].trace = <<"pre", "mode", "post">>
                    /\ calls[i].postDetail = [from |-> calls[i].from,
                                              to |-> calls[i].to]
               ELSE calls[i].trace = <<"pre", "mode">>)
    /\ [][Len(calls') = Len(calls) + 1 =>
             /\ calls'[Len(calls')].from = gameState.mode
             /\ calls'[Len(calls')].to = gameState'.mode]_vars

\* Both notifications of a transition out of the 2D world have gone out.
C16_Witness ==
    \E i \in DOMAIN calls :
        /\ calls[i].from = "2D"
        /\ calls[i].to = "TASK_GAME"
        /\ calls[i].trace = <<"pre", "mode", "post">>

(***************************************************************************)
(* Properties of the task list and its storage                             *)
(***************************************************************************)
\* C17: after every operation that changes gameState.tasks, the task list
\* read back from the storage equals gameState.tasks.
C17_StoredTasksFollowMemory ==
    [][gameState.tasks' # gameState.tasks =>
          getTasks(storage') = gameState.tasks']_vars

\* C18: getTasks() returns an empty array when the stored task entry is
\* missing or is not a serialized array of tasks, and getTokens() returns 0
\* when the stored token entry is missing or is not a serialized count.
C18_ReadsFallBack ==
    /\ (storeLog.op = "getTasks" /\ ~SerializedTasks(storage.tasks))
          => (storeLog.kind = "array" /\ storeLog.arg = <<>>)
    /\ (storeLog.op = "getTokens" /\ ~SerializedTokens(storage.tokens))
          => (storeLog.kind = "number" /\ storeLog.arg = 0)

(***************************************************************************)
(* Properties of the player's movement                                     *)
(***************************************************************************)
RightOnly == gameState.keys["d"] /\ ~gameState.keys["a"]
LeftOnly == gameState.keys["a"] /\ ~gameState.keys["d"]
NoDirection == ~gameState.keys["a"] /\ ~gameState.keys["d"]

\* The tick moved the player by dx and left velocity.x at dx.
Walked(dx, x) ==
    /\ gameState'.velocity.x = dx
    /\ x = playerX(gameState) + dx

\* taskGamePosition.x kept within the canvas.
clampX(x) ==
    IF x < 0 THEN 0
    ELSE IF x > Px(innerWidth - 40) THEN Px(innerWidth - 40) ELSE x

MovingTick ==
    /\ ~gameState.isPaused
    /\ \/ Frame2D
       \/ FrameTaskGame /\ gameState.currentTaskChallenge = Undefined
       \/ /\ FrameArena
          /\ ~trainingArena2DManager.isEnding
          /\ trainingArena2DManager'.isActive
          /\ ~trainingArena2DManager'.isEnding

\* The tick of the task game takes the player below the canvas.
FallsBelowCanvas ==
    LET jump == gameState.keys["w"] /\ ~gameState.isJumping
        vy == (IF jump THEN -jumpPower ELSE gameState.velocity.y)
                 + gameState.gravity
    IN gameState.taskGamePosition.y + vy > Px(innerHeight)

C20_PositionsInSync ==
    [][(/\ FrameTaskGame
        /\ ~gameState.isPaused
        /\ gameState.currentTaskChallenge = Undefined) =>
          gameState'.playerPosition = gameState'.taskGamePosition]_vars


hitsButton(bullet, action) ==
    \E k \in DOMAIN taskGameButtons :
        /\ taskGameButtons[k].action = action
        /\ overlaps(bullet, taskGameButtons[k])

\* The bullets that were in the list when the update began and that the
\* update neither kept nor removed on their own exit or hit.
lostBullets ==
    {k \in DOMAIN lastTick.before :
        /\ \A m \in DOMAIN lastTick.after :
              lastTick.after[m].id # lastTick.before[k].id
        /\ \A n \in DOMAIN lastTick.removed :
              lastTick.removed[n].for.id # lastTick.before[k].id}

\* C21: in one update of the task game every removal takes out the bullet it
\* is performed for, and no bullet leaves the list except by a removal
\* performed for it: a hit on a task object or on a button removes no other
\* live bullet.
C21_HitRemovesOnlyThatBullet ==
    /\ \A n \in DOMAIN lastTick.removed :
          lastTick.removed[n].bullet.id = lastTick.removed[n].for.id
    /\ lostBullets = {}

\* C21 as the code has it: a bullet leaves the list without a removal of its
\* own only when a bullet of the same update hit the Exit button, whose
\* closeTaskGame empties the whole list; every other hit, also the one that
\* starts a challenge or archives a task, removes the hitting bullet alone.
C21_HitRemovesOnlyThatBulletUnlessExit ==
    /\ \A n \in DOMAIN lastTick.removed :
          lastTick.removed[n].bullet.id = lastTick.removed[n].for.id
    /\ lostBullets # {} =>
          /\ lastTick.after = <<>>
          /\ lastTick.modeAfter = "2D"
          /\ \E n \in DOMAIN lastTick.moved :
                LET from == lastTick.moved[n].from
                IN hitsButton([from EXCEPT !.x = @ + from.vx,
                                           !.y = @ + from.vy], "exit")

\* Two bullets were in flight; one hit the task object of a completed task,
\* which was archived, and the other one is still in the list.
C21_Witness ==
    /\ Len(lastTick.before) = 2
    /\ Len(lastTick.archives) = 1
    /\ Len(lastTick.removed) = 1
    /\ \E m \in DOMAIN lastTick.after, k \in DOMAIN lastTick.before :
          /\ lastTick.after[m].id = lastTick.before[k].id
          /\ lastTick.after[m].id # lastTick.removed[1].for.id

\* The position of a bullet lay inside a task object and inside a button.
C21_BothHit ==
    \E n \in DOMAIN lastTick.moved :
        LET from == lastTick.moved[n].from
            to == [from EXCEPT !.x = @ + from.vx, !.y = @ + from.vy]
        IN /\ \E k \in DOMAIN lastTick.moved[n].objects :
                 overlaps(to, lastTick.moved[n].objects[k])
           /\ hitsButton(to, "exit")
           /\ Len(lastTick.before) = 2


\* The deferred exit of a 3D challenge runs for a manager that is no longer
\* the current one.
StaleExitChallenge ==
    \E i \in DOMAIN timers :
        /\ Idle /\ Due(i)
        /\ timers[i].kind = "exitChallenge"
        /\ timers[i].call # trainingChallengeManager.id
        /\ timers' = removeAt(timers, i)

\* C22: a deferred exit never acts on a later arena instance.  Every pending
\* exit of the 2D arena belongs to the current manager, which is ending, and
\* the exit of a 3D challenge manager that has been replaced changes neither
\* gameState.mode nor the newer manager.
C22_StaleExitDoesNothing ==
    /\ [](\A i \in DOMAIN timers :
            timers[i].kind = "exitArena" =>
                /\ trainingArena2DManager # Null
                /\ trainingArena2DManager.isEnding
                /\ trainingArena2DManager.exitTimeout)
    /\ [][StaleExitChallenge =>
            /\ gameState'.mode = gameState.mode
            /\ trainingChallengeManager' = trainingChallengeManager]_vars


\* The return to the task game has been asked for: the challenge completed
\* or the arena could not be entered.
ReturnPending == Pending("return") \/ Pending("appReturn")

\* The task game runs again and nothing of the return is left to do.
TaskGamePlayable ==
    /\ gameState.mode = "TASK_GAME"
    /\ ~gameState.isPaused
    /\ gameState.currentTaskChallenge = Undefined
    /\ jobs = <<>>
    /\ timers = <<>>

\* C23: after a task challenge completed or failed to start, the game
\* eventually is in mode 'TASK_GAME' with isPaused false and
\* currentTaskChallenge undefined, and stays so once the return has run to
\* its end: updateTaskGame processes ticks again.
C23_ReturnsToPlayableTaskGame == ReturnPending ~> TaskGamePlayable


\* C24: in the three 2D platformer loops the player's horizontal position
\* stays within the canvas, 0 <= x <= canvas width - 40, whatever keys are
\* held (only the update ticks move the player).
C24_PlayerWithinCanvas ==
    gameState.mode \in {"2D", "TASK_GAME", "2D_TRAINING"} =>
        /\ playerX(gameState) >= 0
        /\ playerX(gameState) <= Px(innerWidth - 40)


\* The vertical velocity the tick computes before any cap: the jump or the
\* old velocity, plus gravity.
fallVelocity ==
    (IF gameState.keys["w"] /\ ~gameState.isJumping THEN -jumpPower
     ELSE gameState.velocity.y) + gameState.gravity

\* C30: the cap on the falling speed is applied by the free-roam update
\* only: in the free-roam world velocity.y never exceeds 15, and a tick of
\* the task game or of the training arena leaves velocity.y at the uncapped
\* value (or at 0 when the player landed or was put back on the canvas).
C30_FallSpeedCappedInFreeRoamOnly ==
    /\ [](gameState.mode = "2D" => gameState.velocity.y <= maxFallSpeed)
    /\ [][(MovingTick /\ gameState.mode \in {"TASK_GAME", "2D_TRAINING"}) =>
             gameState'.velocity.y \in {0, fallVelocity}]_vars

\* C30 as the code has it: the free-roam update and the training arena's
\* update both cap velocity.y at 15; only the task game's update applies no
\* cap.
C30_FallSpeedCappedOutsideTaskGame ==
    /\ [](gameState.mode \in {"2D", "2D_TRAINING"} =>
             gameState.velocity.y <= maxFallSpeed)
    /\ [][MovingTick =>
             gameState'.velocity.y \in
                {0, IF gameState.mode = "TASK_GAME"
                       \/ fallVelocity <= maxFallSpeed
                    THEN fallVelocity ELSE maxFallSpeed}]_vars

\* A tick of the training arena left the falling player at the capped
\* speed.
C30_Witness ==
    /\ gameState.mode = "2D_TRAINING"
    /\ trainingArena2DManager.isActive
    /\ arenaLog.last = "update"
    /\ gameState.velocity.y = maxFallSpeed


\* C29: when transitionGameMode(target) returns, gameState.previousMode is
\* the mode the game was in immediately before the call, with either
\* implementation of gameState.setMode.
C29_PreviousModeIsTheModeLeft ==
    \A i \in DOMAIN calls : calls[i].returnPrevious = calls[i].from


\* C28: in every frame of PixiScene that starts in a 2D-based mode the
\* update function of that mode is called first and the render function of
\* the same mode second, also when the update changes gameState.mode.
C28_UpdateThenRenderOfTheSameMode ==
    frameLog.mode \in TwoDModes =>
        frameLog.called = << [fn |-> "update", of |-> frameLog.mode],
                             [fn |-> "render", of |-> frameLog.mode] >>

\* The update of a frame of the task game closed the task game; the frame
\* went on to render.
C28_Witness ==
    /\ frameLog.mode = "TASK_GAME"
    /\ frameLog.modeAfterUpdate = "2D"
    /\ Len(frameLog.called) = 2


\* C25: the first update tick of a newly entered mode (the first frame that
\* starts in another mode than the frame before it) finds gameState.bullets
\* empty: the bullets of the mode that was left have been discarded.
C25_NoBulletSurvivesAModeChange ==
    (/\ frameLog.previousFrameMode # "null"
     /\ frameLog.mode # frameLog.previousFrameMode
     /\ frameLog.mode \in TwoDModes) => frameLog.bullets = <<>>


\* The number of elements of the sequence seq that are equal to e
Count(seq, e) == Cardinality({i \in DOMAIN seq : seq[i] = e})

\* The replacement timers the manager of the arena has set
OwnReplacements ==
    {i \in DOMAIN timers :
        /\ timers[i].kind = "createTarget"
        /\ timers[i].call = trainingArena2DManager.id}

RECURSIVE SumPoints(_)
SumPoints(hits) ==
    IF hits = <<>> THEN 0 ELSE Head(hits).target.points + SumPoints(Tail(hits))

\* An update of the arena in which bullets hit targets
HitsInThisUpdate ==
    /\ arenaLog.hits' # <<>>
    /\ arenaLog.hits' # arenaLog.hits

\* The update removes the bullets and the targets that collided and no
\* others, adds the points of those targets to the score and sets one
\* timer of one second per collision.
HitsAreSettled ==
    LET hits == arenaLog.hits'
        flown == updateBullets(gameState.bullets)
        moved == updateTargets(trainingArena2DManager.targets)
        hitBullets == [i \in DOMAIN hits |-> hits[i].bullet]
        hitTargets == [i \in DOMAIN hits |-> hits[i].target]
        before == trainingArena2DManager
        after == trainingArena2DManager'
    IN /\ \A i \in DOMAIN hits : inside(hits[i].bullet, hits[i].target)
       /\ after.score = before.score + SumPoints(hits)
       /\ Len(timers') = Len(timers) + Len(hits)
       /\ \A i \in (Len(timers) + 1)..Len(timers') :
             timers'[i] = replacementTimer(before.id)
       /\ after.isActive =>
             /\ \A i \in DOMAIN flown :
                   Count(gameState.bullets', flown[i])
                     + Count(hitBullets, flown[i]) = Count(flown, flown[i])
             /\ Len(gameState.bullets') = Len(flown) - Len(hits)
             /\ \A j \in DOMAIN moved :
                   Count(after.targets, moved[j])
                     + Count(hitTargets, moved[j]) = Count(moved, moved[j])
             /\ Len(after.targets) = Len(moved) - Len(hits)
             /\ \A i \in DOMAIN gameState.bullets', j \in DOMAIN after.targets :
                   ~inside(gameState.bullets'[i], after.targets[j])

\* A target is added to the arena in play by a due replacement timer of its
\* manager only, one at a time and while isActive is set.
TargetAdded ==
    /\ trainingArena2DManager # Null
    /\ trainingArena2DManager' # Null
    /\ trainingArena2DManager'.id = trainingArena2DManager.id
    /\ Len(trainingArena2DManager'.targets)
          > Len(trainingArena2DManager.targets)

AddedByItsTimer ==
    /\ trainingArena2DManager.isActive
    /\ Len(trainingArena2DManager'.targets)
          = Len(trainingArena2DManager.targets) + 1
    /\ \E i \in OwnReplacements :
          /\ timers[i].left = 0
          /\ timers' = removeAt(timers, i)

AfterTheCooldown ==
    firePress.by # "none" => firePress.gap > gameState.shootCooldown

=============================================================================
